---- MODULE Spec2Model ----
(***************************************************************************)
(* Model of the multi-agent runtime of MyAdventures/Plugin/Core:           *)
(*   - BaseAgent: lifecycle state machine and perceive-decide-act loop     *)
(*     (Agents/BaseAgent.py), run as asyncio tasks: a step of the model is *)
(*     the code executed between two suspension points of one task;        *)
(*   - MessageBus (Bus/Bus.py);                                            *)
(*   - SectorLockManager (Agents/Miner/MinerBot.py).                       *)
(***************************************************************************)
EXTENDS Integers, Sequences, FiniteSets, TLC

\* ------------------------------------------------------------------ bounds
\* loop tasks one agent may create in a behaviour (start() calls that spawn)
MaxTasks == 2
\* the counter of save_checkpoint() invocations saturates here
MaxCkpt == 3

\* ------------------------------------------------------------ BaseAgent.py
Agents == {"a1", "a2"}

\* AgentState (BaseAgent.py:16-22)
AgentState == {"IDLE", "RUNNING", "PAUSED", "WAITING", "STOPPED", "ERROR"}

TaskIds == 1..MaxTasks

\* The tasks that call start/stop/pause/resume. Callers are tasks other than
\* the agent's loop; LoopTask(t) is the loop task t of the agent itself, when
\* it calls from inside its own cycle; Anyone stands for a caller whose
\* identity the operation does not read.
Callers == {<<"ext", 1>>, <<"ext", 2>>}
LoopTask(t) == <<"loop", t>>
LoopTasks == {LoopTask(t) : t \in TaskIds}
Anyone == <<"ext", 0>>

\* where a loop task is suspended
\*   "unborn"   not created yet
\*   "created"  scheduled by create_task, _run_loop not entered yet
\*   "sleep"    in asyncio.sleep(0.1) of the paused branch
\*   "perceive" / "decide" / "act"   inside that awaited coroutine
\*   "yield"    in asyncio.sleep(0) at the end of a cycle
\*   "done"     the task is finished
LoopPc == {"unborn", "created", "sleep", "perceive", "decide", "act", "yield", "done"}
Suspended == {"created", "sleep", "perceive", "decide", "act", "yield"}
InCycle == {"perceive", "decide", "act"}

VARIABLES
  state,        \* [Agents -> AgentState]            self._state
  should_stop,  \* [Agents -> BOOLEAN]               self._should_stop
  task,         \* [Agents -> 0..MaxTasks]           self._task (0 is None)
  pc,           \* [Agents -> [TaskIds -> LoopPc]]   position of every loop task
  must_cancel,  \* [Agents -> [TaskIds -> BOOLEAN]]  task.cancel() requested, not delivered
  awaiting,     \* [Agents -> [Callers \cup LoopTasks -> 0..MaxTasks]] task a stop() caller awaits
  checkpoints,  \* [Agents -> 0..MaxCkpt]  save_checkpoint() calls since the last spawning start()
  terminations, \* [Agents -> 0..MaxTasks] loop tasks finished since the last spawning start()
  overlapped,   \* [Agents -> BOOLEAN]  two stop() calls awaited the loop at the same time
  crashed,      \* [Agents -> BOOLEAN]  the loop ended in `except Exception`, no control call since
  selfStopped,  \* [Agents -> [TaskIds -> BOOLEAN]] the loop task called stop() on its own agent
  log           \* what the last step did (see NoLog)

\* MessageBus (Bus.py) and what its last publish() did
VARIABLES
  subscribers,  \* [Topics -> Seq(Callbacks)]  self.subscribers (a missing key is <<>>)
  registered,   \* every subscribe() call so far, in call order: <<topic, callback>>
  published,    \* the type of the message of the last publish() call, <<>> if
                \* there was none or subscribe() has been called since
  failing,      \* the callbacks that raise when they get that message
  delivered,    \* the callbacks publish() awaited for it, in order
  raised        \* whether that publish() call raised instead of returning

busVars == <<subscribers, registered, published, failing, delivered, raised>>

\* SectorLockManager (MinerBot.py) shared by the agents
VARIABLES
  locks,        \* [Sectors -> {"absent", "free", "locked"}]  self._locks and each Lock's _locked
  waiters,      \* [Sectors -> Seq(<<agent, woken>>)]  each Lock's _waiters, in arrival order
  holds,        \* [Agents -> SUBSET Sectors]  acquire() returned True, not released by that agent since
  lastCall      \* the last manager call that returned: [op, agent, sector, result]

lockVars == <<locks, waiters, holds, lastCall>>

\* MinerBot (MinerBot.py): every bot has a SectorLockManager of its own
VARIABLES
  mlocks,       \* [Agents -> [Sectors -> {"absent", "free", "locked"}]]  self._locks of each bot
  mining        \* [Agents -> Sectors \cup {NoSector}]  the sector a bot has locked and is mining

minerVars == <<mlocks, mining>>

\* ExplorerBot (ExplorerBot.py): the percept of one scan and what decide() made of it
VARIABLES
  height_map,   \* [scanned cells -> Elevations]  percept["height_map"]
  level_order,  \* the elevations in the order their first cell was inserted
                \* (the key order of `levels` in decide)
  decided,      \* decide() has run on height_map
  best_rectangle \* what it returned (NoRectangle for None)

explorerVars == <<height_map, level_order, decided, best_rectangle>>

\* BuilderBot (BuilderBot.py) and the side of MinerBot it talks to
VARIABLES
  last_map,            \* self._last_map: the accepted rectangle (NoMap for None)
  bom,                 \* self._bom: required quantity of the material (0 for None)
  material_inventory,  \* self._material_inventory: quantity of the material
  build_progress,      \* self._build_progress
  build_plan,          \* len(self._build_plan) (0 for None)
  map_event,           \* self._map_event.is_set()
  percept,             \* the last value of perceive()
  decision,            \* the last action returned by decide()
  build_status,        \* status of the last build.v1 published ("none" before)
  current_bom,         \* MinerBot._current_bom (0 for None)
  inventory            \* MinerBot.inventory: quantity of the material

builderVars == <<last_map, bom, material_inventory, build_progress, build_plan,
                 map_event, percept, decision, build_status, current_bom, inventory>>

\* what reaches the bots from outside their cycles, and one run of a search
\* strategy of ExplorerBot
VARIABLES
  template_name,  \* BuilderBot._template_name
  bot_kind,       \* [Agents -> BotKinds]  the class each agent is an instance of
  command,        \* the last command message published and the control calls
                  \* its delivery made (see NoCommand)
  spiral_args,    \* the arguments <<start_x, start_z, radius>> of the last search_spiral call
  spiral_coords,  \* the list it returned
  map_msg         \* the last map.v1 message delivered to the builder (see NoMapMsg)

\* what the builder gave out: the build.v1 message and the placement of the
\* layers
VARIABLES
  build_v1,     \* the last build.v1 published: payload["progress"], and the
                \* number of layers of the plan when it was published
  layer_bases   \* base_x of each layer begun in the current build, in order

buildExt == <<build_v1, layer_bases>>

\* MinerBot (MinerBot.py): the BOM, the inventory and the cycle of one miner
VARIABLES
  miner_bom,        \* self._current_bom: whether it is set, and the quantities
  miner_inventory,  \* [Materials -> Nat]  self.inventory
  miner_cycle,      \* the percept of the last cycle and the decision made of it
  pending_start,    \* start() tasks created by _on_materials_request, not yet run
  bom_target        \* msg["target"] of the last materials.requirements.v1

minerExt == <<miner_bom, miner_inventory, miner_cycle, pending_start, bom_target>>

\* ExplorerBot (ExplorerBot.py): where it scans, and the request that waits
VARIABLES
  center,           \* self.center
  range,            \* self.range
  queued_request,   \* self._queued_request
  scan_args,        \* x0, z0 and r of the scan in progress (perceive, lines 138-139)
  scan_maps,        \* map.v1 messages published by the cycle of that scan
  start_req         \* x, z and range of the last start command addressed to the bot

explorerExt == <<center, range, queued_request, scan_args, scan_maps, start_req>>

extVars == <<buildExt, minerExt, explorerExt>>

ctlCore == <<template_name, bot_kind, command, spiral_args, spiral_coords, map_msg>>

ctlVars == <<template_name, bot_kind, command, spiral_args, spiral_coords, map_msg,
             extVars>>

botVars == <<minerVars, explorerVars, builderVars, ctlVars>>

agentVars == <<state, should_stop, task, pc, must_cancel, awaiting,
               checkpoints, terminations, overlapped, crashed, selfStopped, log>>

Min(x, y) == IF x < y THEN x ELSE y

Last(seq) == seq[Len(seq)]
Range(seq) == {seq[i] : i \in 1..Len(seq)}

\* ------------------------------------------------------------------ Bus.py
\* A message type or topic is a dotted string, held as its segments:
\* "command.*.v1" is <<"command", "*", "v1">>.
MapV1 == <<"map", "v1">>
CommandPause == <<"command", "builder", "pause", "v1">>
CommandPattern == <<"command", "*", "v1">>
Wildcard == <<"*">>

\* the strings passed to subscribe() as topics
Topics == {MapV1, CommandPause, CommandPattern, Wildcard}

\* the values of msg["type"]: versioned dotted strings, which "*" is not
MsgTypes == {MapV1, CommandPause, CommandPattern}

\* the callbacks: h1 is a handler of agent a1, h2 of agent a2
Callbacks == {"h1", "h2"}
Owner(cb) == IF cb = "h1" THEN "a1" ELSE "a2"

\* subscribe() calls in a behaviour
MaxSubs == 3

\* MessageBus.__init__
BusInit ==
  /\ subscribers = [tp \in Topics |-> <<>>]
  /\ registered = <<>>
  /\ published = <<>>
  /\ failing = {}
  /\ delivered = <<>>
  /\ raised = FALSE

\* MessageBus.subscribe, lines 5-8
Subscribe(tp, cb) ==
  /\ Len(registered) < MaxSubs
  /\ subscribers' = [subscribers EXCEPT ![tp] = Append(@, cb)]
  /\ registered' = Append(registered, <<tp, cb>>)
  /\ published' = <<>>
  /\ failing' = {}
  /\ delivered' = <<>>
  /\ raised' = FALSE

\* a publish() that calls the "*" callbacks before those of the type
RecipientsWildcardFirst(subs, type) == subs[Wildcard] \o subs[type]

\* a publish() that also matches the topic "command.*.v1" as a glob against
\* the type (first and last segment equal)
RecipientsGlob(subs, type) ==
  subs[type]
  \o (IF type # CommandPattern /\ type[1] = CommandPattern[1]
          /\ type[Len(type)] = CommandPattern[Len(CommandPattern)]
      THEN subs[CommandPattern] ELSE <<>>)
  \o subs[Wildcard]

\* MessageBus.publish, line 11: the list publish() iterates over
Recipients(subs, type) == subs[type] \o subs[Wildcard]

\* the index of the first callback of `list` that raises, 0 if none does
RECURSIVE FirstFailure(_, _, _)
FirstFailure(list, bad, i) ==
  IF i > Len(list) THEN 0
  ELSE IF list[i] \in bad THEN i
  ELSE FirstFailure(list, bad, i + 1)

\* MessageBus.publish, lines 12-13: the callbacks awaited, in order; an
\* exception of `await cb(msg)` leaves the loop and publish()
Awaited(list, bad) ==
  IF FirstFailure(list, bad, 1) = 0 THEN list
  ELSE SubSeq(list, 1, FirstFailure(list, bad, 1))

\* MessageBus.publish, lines 10-13, for a message of type `type` when the
\* callbacks in `bad` raise
Publish(type, bad) ==
  /\ published' = type
  /\ failing' = bad
  /\ delivered' = Awaited(Recipients(subscribers, type), bad)
  /\ raised' = (FirstFailure(Recipients(subscribers, type), bad, 1) # 0)
  /\ UNCHANGED <<subscribers, registered>>

\* self._task and not self._task.done()
TaskActive(a) == task[a] # 0 /\ pc[a][task[a]] # "done"

LiveTasks(a) == {t \in TaskIds : pc[a][t] \in Suspended}

\* log: op      the operation or loop step the last action executed
\*      agent   the agent it ran on
\*      caller  the task that ran it: a member of Callers, or a loop task id
\*      sets    the set_state() calls it made, in order; the first has the
\*              reason "exception" when the step ended in `except Exception`
\*      ckpts   the save_checkpoint() calls it made
\*      live    for stop(): whether the loop it had to end was still unfinished
\*              when stop() went on to set_state(STOPPED)
NoLog == [op |-> "init", agent |-> "none", caller |-> Anyone, sets |-> <<>>,
          ckpts |-> 0, live |-> FALSE]

\* one record of set_state(): the logger line "[STATE] prev -> new | reason"
Edge(prev, new, reason) == <<prev, new, reason>>

\* the state after a sequence of set_state() calls
FinalState(prev, sets) == IF sets = <<>> THEN prev ELSE sets[Len(sets)][2]

\* BaseAgent.__init__
AgentInit ==
  /\ state = [a \in Agents |-> "IDLE"]
  /\ should_stop = [a \in Agents |-> FALSE]
  /\ task = [a \in Agents |-> 0]
  /\ pc = [a \in Agents |-> [t \in TaskIds |-> "unborn"]]
  /\ must_cancel = [a \in Agents |-> [t \in TaskIds |-> FALSE]]
  /\ awaiting = [a \in Agents |-> [c \in Callers \cup LoopTasks |-> 0]]
  /\ checkpoints = [a \in Agents |-> 0]
  /\ terminations = [a \in Agents |-> 0]
  /\ overlapped = [a \in Agents |-> FALSE]
  /\ crashed = [a \in Agents |-> FALSE]
  /\ selfStopped = [a \in Agents |-> [t \in TaskIds |-> FALSE]]
  /\ log = NoLog

\* the bookkeeping shared by every step of agent a: `sets` are its set_state()
\* calls, `n` its save_checkpoint() calls
Record(a, op, caller, sets, n, live) ==
  /\ state' = [state EXCEPT ![a] = FinalState(state[a], sets)]
  /\ checkpoints' = [checkpoints EXCEPT ![a] = Min(@ + n, MaxCkpt)]
  /\ log' = [op |-> op, agent |-> a, caller |-> caller, sets |-> sets,
             ckpts |-> n, live |-> live]

\* a stop() that never recognises its own loop task
CalledFromOwnLoopNever(a, c) == FALSE

\* BaseAgent.stop, line 86: asyncio.current_task() is self._task
CalledFromOwnLoop(a, c) == c = LoopTask(task[a])

\* the id create_task() gives the next loop task of agent a
NextTaskId(a) == Cardinality({t \in TaskIds : pc[a][t] # "unborn"}) + 1

\* a start() guard that reads the lifecycle state instead of the task, the
\* test MinerBot._on_materials_request makes before it schedules start()
AlreadyRunningByState(a) == state[a] = "RUNNING"

\* BaseAgent.start, line 66: a loop is already active
AlreadyRunning(a) == TaskActive(a)

\* BaseAgent.start, lines 64-74
StartCall(a) ==
  /\ crashed' = [crashed EXCEPT ![a] = FALSE]
  /\ IF AlreadyRunning(a)
     THEN /\ Record(a, "start_ignored", Anyone, <<>>, 0, FALSE)
          /\ UNCHANGED <<should_stop, task, pc, terminations, overlapped>>
     ELSE /\ NextTaskId(a) \in TaskIds
          /\ should_stop' = [should_stop EXCEPT ![a] = FALSE]
          /\ task' = [task EXCEPT ![a] = NextTaskId(a)]
          /\ pc' = [pc EXCEPT ![a][NextTaskId(a)] = "created"]
          /\ state' = [state EXCEPT ![a] = "RUNNING"]
          /\ checkpoints' = [checkpoints EXCEPT ![a] = 0]
          /\ terminations' = [terminations EXCEPT ![a] = 0]
          /\ overlapped' = [overlapped EXCEPT ![a] = FALSE]
          /\ log' = [op |-> "start", agent |-> a, caller |-> Anyone,
                     sets |-> <<Edge(state[a], "RUNNING", "start")>>,
                     ckpts |-> 0, live |-> FALSE]
  /\ UNCHANGED <<must_cancel, awaiting, selfStopped>>

Start(a) == StartCall(a) /\ UNCHANGED <<busVars, lockVars, botVars>>

\* the caller c can run code: an outside task not suspended in a stop(), or a
\* loop task of agent a inside its cycle with no cancellation pending
CanRun(a, c) ==
  /\ \A b \in Agents : awaiting[b][c] = 0
  /\ c \in LoopTasks => pc[a][c[2]] \in InCycle /\ ~must_cancel[a][c[2]]

\* BaseAgent.stop, lines 76-97, up to its suspension point (await self._task)
\* or, when it does not wait, to its end
StopCall(a, c) ==
  /\ CanRun(a, c)
  /\ should_stop' = [should_stop EXCEPT ![a] = TRUE]
  /\ crashed' = [crashed EXCEPT ![a] = FALSE]
  /\ selfStopped' = IF c \in LoopTasks
                    THEN [selfStopped EXCEPT ![a][c[2]] = TRUE]
                    ELSE selfStopped
  /\ IF TaskActive(a) /\ ~CalledFromOwnLoop(a, c)
     THEN /\ must_cancel' = [must_cancel EXCEPT ![a][task[a]] = TRUE]
          /\ awaiting' = [awaiting EXCEPT ![a][c] = task[a]]
          /\ overlapped' = [overlapped EXCEPT ![a] =
                 @ \/ \E d \in Callers \ {c} : awaiting[a][d] = task[a]]
          /\ Record(a, "stop_wait", c, <<>>, 0, TRUE)
     ELSE /\ Record(a, "stop", c,
                    <<Edge(state[a], "STOPPED", "stop command")>>, 1, TaskActive(a))
          /\ UNCHANGED <<must_cancel, awaiting, overlapped>>
  /\ UNCHANGED <<task, pc, terminations>>

Stop(a, c) == StopCall(a, c) /\ UNCHANGED <<busVars, lockVars, botVars>>

\* BaseAgent.stop, lines 89-97: `await self._task` returns once the awaited
\* task is done; then set_state(STOPPED) and save_checkpoint()
StopReturn(a, c) ==
  /\ awaiting[a][c] # 0
  /\ pc[a][awaiting[a][c]] = "done"
  /\ c \in LoopTasks => pc[a][c[2]] \in InCycle /\ ~must_cancel[a][c[2]]
  /\ awaiting' = [awaiting EXCEPT ![a][c] = 0]
  /\ Record(a, "stop", c, <<Edge(state[a], "STOPPED", "stop command")>>, 1,
            pc[a][awaiting[a][c]] # "done")
  /\ UNCHANGED <<should_stop, task, pc, must_cancel, terminations, overlapped,
                 crashed, selfStopped>>
  /\ UNCHANGED <<busVars, lockVars, botVars>>

\* BaseAgent.pause, lines 99-100
PauseCall(a) ==
  /\ Record(a, "pause", Anyone, <<Edge(state[a], "PAUSED", "pause command")>>, 0, FALSE)
  /\ crashed' = [crashed EXCEPT ![a] = FALSE]
  /\ UNCHANGED <<should_stop, task, pc, must_cancel, awaiting, terminations,
                 overlapped, selfStopped>>

Pause(a) == PauseCall(a) /\ UNCHANGED <<busVars, lockVars, botVars>>

\* BaseAgent.resume, lines 102-104
ResumeCall(a) ==
  /\ Record(a, "resume", Anyone,
            IF state[a] = "PAUSED"
            THEN <<Edge(state[a], "RUNNING", "resume command")>> ELSE <<>>,
            0, FALSE)
  /\ crashed' = [crashed EXCEPT ![a] = FALSE]
  /\ UNCHANGED <<should_stop, task, pc, must_cancel, awaiting, terminations,
                 overlapped, selfStopped>>

Resume(a) == ResumeCall(a) /\ UNCHANGED <<busVars, lockVars, botVars>>

\* ---------------------------------------------------------------- _run_loop
\* the loop task t of agent a is resumed normally (no CancelledError is thrown
\* into it, and it is not itself waiting inside a stop())
Resumes(a, t) == ~must_cancel[a][t] /\ awaiting[a][LoopTask(t)] = 0

\* the task t of agent a finishes
Finish(a, t) ==
  /\ pc' = [pc EXCEPT ![a][t] = "done"]
  /\ must_cancel' = [must_cancel EXCEPT ![a][t] = FALSE]
  /\ terminations' = [terminations EXCEPT ![a] = Min(@ + 1, MaxTasks)]

\* the `finally` clause of _run_loop, lines 143-147, entered in state `prev`:
\* its set_state() calls
Finally(a, prev) ==
  IF ~should_stop[a] THEN <<Edge(prev, "STOPPED", "loop finished")>> ELSE <<>>

\* a loop with no test of the PAUSED state before its cycle
LoopCheckIgnoringPause(a, t) ==
  /\ pc[a][t] \in {"created", "sleep", "yield"}
  /\ Resumes(a, t)
  /\ IF should_stop[a] \/ state[a] \in {"STOPPED", "ERROR"}
     THEN /\ Finish(a, t)
          /\ Record(a, "loop_exit", LoopTask(t), Finally(a, state[a]), Len(Finally(a, state[a])), FALSE)
     ELSE /\ pc' = [pc EXCEPT ![a][t] = "perceive"]
          /\ Record(a, "cycle_start", LoopTask(t), <<>>, 0, FALSE)
          /\ UNCHANGED <<must_cancel, terminations>>
  /\ UNCHANGED <<should_stop, task, awaiting, overlapped, crashed, selfStopped>>
  /\ UNCHANGED <<busVars, lockVars, botVars>>

\* _run_loop, lines 115-121: the `while` test and the two state tests that
\* precede a cycle, run when the task is first scheduled or wakes from a sleep
LoopCheckCall(a, t) ==
  /\ pc[a][t] \in {"created", "sleep", "yield"}
  /\ Resumes(a, t)
  /\ IF should_stop[a]
     THEN /\ Finish(a, t)
          /\ Record(a, "loop_exit", LoopTask(t), Finally(a, state[a]), Len(Finally(a, state[a])), FALSE)
     ELSE IF state[a] = "PAUSED"
     THEN /\ pc' = [pc EXCEPT ![a][t] = "sleep"]
          /\ Record(a, "loop_paused", LoopTask(t), <<>>, 0, FALSE)
          /\ UNCHANGED <<must_cancel, terminations>>
     ELSE IF state[a] \in {"STOPPED", "ERROR"}
     THEN /\ Finish(a, t)
          /\ Record(a, "loop_exit", LoopTask(t), Finally(a, state[a]), Len(Finally(a, state[a])), FALSE)
     ELSE /\ pc' = [pc EXCEPT ![a][t] = "perceive"]
          /\ Record(a, "cycle_start", LoopTask(t), <<>>, 0, FALSE)
          /\ UNCHANGED <<must_cancel, terminations>>
  /\ UNCHANGED <<should_stop, task, awaiting, overlapped, crashed, selfStopped>>

LoopCheck(a, t) == LoopCheckCall(a, t) /\ UNCHANGED <<busVars, lockVars, botVars>>

\* _run_loop, lines 138-147: `except Exception` (set_state(ERROR) and a
\* checkpoint) followed by the `finally` clause
Crash(a, t, op) ==
  /\ Finish(a, t)
  /\ crashed' = [crashed EXCEPT ![a] = TRUE]
  /\ Record(a, op, LoopTask(t),
            <<Edge(state[a], "ERROR", "exception")>> \o Finally(a, "ERROR"),
            1 + Len(Finally(a, "ERROR")), FALSE)
  /\ UNCHANGED <<should_stop, task, awaiting, overlapped, selfStopped>>

\* one of perceive / decide / act (lines 124-130), logged as `op`, returns
\* or raises
CycleStep(a, t, op, from, to, ok) ==
  /\ pc[a][t] = from
  /\ Resumes(a, t)
  /\ IF ok
     THEN /\ pc' = [pc EXCEPT ![a][t] = to]
          /\ Record(a, op, LoopTask(t), <<>>, 0, FALSE)
          /\ UNCHANGED <<should_stop, task, must_cancel, awaiting, terminations,
                         overlapped, crashed, selfStopped>>
     ELSE Crash(a, t, op)

Perceive(a, t) ==
  /\ \E ok \in BOOLEAN : CycleStep(a, t, "perceive", "perceive", "decide", ok)
  /\ UNCHANGED <<busVars, lockVars, botVars>>

Decide(a, t) ==
  /\ \E ok \in BOOLEAN : CycleStep(a, t, "decide", "decide", "act", ok)
  /\ UNCHANGED <<busVars, lockVars, botVars>>

\* self._task.cancel() called by code other than stop(): the task created in
\* start (line 73) is asked to cancel, and CancelledError is thrown into it
\* when it is next resumed
CancelTask(a) ==
  /\ TaskActive(a)
  /\ must_cancel' = [must_cancel EXCEPT ![a][task[a]] = TRUE]
  /\ Record(a, "cancel", Anyone, <<>>, 0, FALSE)
  /\ UNCHANGED <<should_stop, task, pc, awaiting, terminations, overlapped,
                 crashed, selfStopped>>
  /\ UNCHANGED <<busVars, lockVars, botVars>>

\* a loop whose CancelledError is handled by `except Exception`
CancelledAsFailure(a, t) ==
  /\ pc[a][t] \in Suspended
  /\ must_cancel[a][t]
  /\ Crash(a, t, "loop_cancelled")
  /\ UNCHANGED <<busVars, lockVars, botVars>>

\* _run_loop, lines 134-136 and 143-147: CancelledError is thrown into the
\* suspended task. A task cancelled before its first step never enters the
\* `try`, so its `finally` clause does not run.
CancelledCall(a, t) ==
  /\ pc[a][t] \in Suspended
  /\ must_cancel[a][t]
  /\ Finish(a, t)
  /\ Record(a, "loop_cancelled", LoopTask(t),
            IF pc[a][t] = "created" THEN <<>> ELSE Finally(a, state[a]),
            IF pc[a][t] = "created" THEN 0 ELSE Len(Finally(a, state[a])), FALSE)
  /\ UNCHANGED <<should_stop, task, awaiting, overlapped, crashed, selfStopped>>

Cancelled(a, t) == CancelledCall(a, t) /\ UNCHANGED <<busVars, lockVars, botVars>>

\* act() that publishes nothing (line 130) returns or raises
Act(a, t) ==
  /\ \E ok \in BOOLEAN : CycleStep(a, t, "act", "act", "yield", ok)
  /\ UNCHANGED <<busVars, lockVars, botVars>>

\* act() that publishes one message, as ExplorerBot._publish_map (lines
\* 315-334) does: an exception of bus.publish() is an exception of act()
ActPublish(a, t) ==
  \E type \in MsgTypes, bad \in SUBSET Callbacks :
    /\ Publish(type, bad)
    /\ CycleStep(a, t, "publish", "act", "yield", ~raised')
    /\ UNCHANGED <<lockVars, botVars>>

\* ------------------------------------------- MinerBot.py: SectorLockManager
\* sectors are pairs (x // 16, z // 16)
Sectors == {<<0, 0>>, <<0, 1>>}

\* SectorLockManager.__init__, lines 17-19. self._global is taken and given
\* back inside one step of one task (no `await` suspends under it), so it is
\* free whenever a step begins and is not a variable.
LockInit ==
  /\ locks = [s \in Sectors |-> "absent"]
  /\ waiters = [s \in Sectors |-> <<>>]
  /\ holds = [a \in Agents |-> {}]
  /\ lastCall = [op |-> "init", agent |-> "none", sector |-> <<0, 0>>, result |-> FALSE]

\* agent a is suspended inside lock.acquire() of sector s
Waits(a, s) == \E i \in 1..Len(waiters[s]) : waiters[s][i][1] = a
Waiting(a) == \E s \in Sectors : Waits(a, s)

\* asyncio.Lock._wake_up_first: the result of the first waiter's future is
\* set, unless it is set already
WakeUpFirst(q) ==
  IF q # <<>> /\ ~q[1][2] THEN <<<<q[1][1], TRUE>>>> \o Tail(q) ELSE q

\* the queue q without the entry of agent a
RECURSIVE Without(_, _)
Without(q, a) ==
  IF q = <<>> THEN <<>>
  ELSE IF q[1][1] = a THEN Tail(q)
  ELSE <<q[1]>> \o Without(Tail(q), a)

\* a release() that leaves a free lock for the sector whatever was there
FreedUnchecked(lk, s) == "free"

\* asyncio.Lock.release as SectorLockManager calls it (after lock.locked()):
\* the lock of sector s is freed, whoever acquired it, and the first waiter woken
Freed(lk, s) == IF lk[s] = "locked" THEN "free" ELSE lk[s]
Woken(lk, q, s) == IF lk[s] = "locked" THEN WakeUpFirst(q[s]) ELSE q[s]

\* SectorLockManager.acquire, lines 21-35, up to the suspension inside
\* lock.acquire() or, when the lock is free and nobody waits, to its end
Acquire(a, s) ==
  /\ ~Waiting(a)
  /\ IF locks[s] # "locked" /\ waiters[s] = <<>>
     THEN /\ locks' = [locks EXCEPT ![s] = "locked"]
          /\ holds' = [holds EXCEPT ![a] = @ \cup {s}]
          /\ lastCall' = [op |-> "acquire", agent |-> a, sector |-> s, result |-> TRUE]
          /\ UNCHANGED waiters
     ELSE /\ locks' = [locks EXCEPT ![s] = IF @ = "absent" THEN "free" ELSE @]
          /\ waiters' = [waiters EXCEPT ![s] = Append(@, <<a, FALSE>>)]
          /\ UNCHANGED <<holds, lastCall>>
  /\ UNCHANGED <<agentVars, busVars, botVars>>

\* SectorLockManager.acquire, lines 30-33: the waiter woken by a release
\* resumes, takes the lock and acquire() returns True
Granted(a, s) ==
  /\ \E i \in 1..Len(waiters[s]) : waiters[s][i] = <<a, TRUE>>
  /\ waiters' = [waiters EXCEPT ![s] = Without(@, a)]
  /\ locks' = [locks EXCEPT ![s] = "locked"]
  /\ holds' = [holds EXCEPT ![a] = @ \cup {s}]
  /\ lastCall' = [op |-> "acquire", agent |-> a, sector |-> s, result |-> TRUE]
  /\ UNCHANGED <<agentVars, busVars, botVars>>

\* acquire(sector) with timeout=None, lines 29-31: no timer ends the wait
AcquireWithoutTimeout(a, s) == FALSE /\ UNCHANGED <<agentVars, busVars, lockVars, botVars>>

\* SectorLockManager.acquire, lines 33-35: wait_for() times out, the pending
\* lock.acquire() is cancelled and acquire() returns False. A waiter that had
\* been woken hands the wake-up on (asyncio.Lock.acquire, on CancelledError).
TimedOut(a, s) ==
  /\ Waits(a, s)
  /\ waiters' = [waiters EXCEPT ![s] =
        IF <<a, TRUE>> \in {@[i] : i \in 1..Len(@)} /\ locks[s] # "locked"
        THEN WakeUpFirst(Without(@, a)) ELSE Without(@, a)]
  /\ lastCall' = [op |-> "acquire", agent |-> a, sector |-> s, result |-> FALSE]
  /\ UNCHANGED <<locks, holds>>
  /\ UNCHANGED <<agentVars, busVars, botVars>>

\* SectorLockManager.release, lines 37-41, called by agent a
Release(a, s) ==
  /\ ~Waiting(a)
  /\ locks' = [locks EXCEPT ![s] = Freed(locks, s)]
  /\ waiters' = [waiters EXCEPT ![s] = Woken(locks, waiters, s)]
  /\ holds' = [holds EXCEPT ![a] = @ \ {s}]
  /\ lastCall' = [op |-> "release", agent |-> a, sector |-> s,
                  result |-> locks[s] = "locked"]
  /\ UNCHANGED <<agentVars, busVars, botVars>>

\* a release_all() that releases only the sectors its caller acquired
ReleaseAllOwned(a) ==
  /\ ~Waiting(a)
  /\ locks' = [s \in Sectors |-> IF s \in holds[a] THEN Freed(locks, s) ELSE locks[s]]
  /\ waiters' = [s \in Sectors |->
                   IF s \in holds[a] THEN Woken(locks, waiters, s) ELSE waiters[s]]
  /\ holds' = [holds EXCEPT ![a] = {}]
  /\ lastCall' = [op |-> "release_all", agent |-> a, sector |-> <<0, 0>>,
                  result |-> \E s \in Sectors : locks[s] = "locked"]
  /\ UNCHANGED <<agentVars, busVars, botVars>>

\* SectorLockManager.release_all, lines 43-51, called by agent a
ReleaseAll(a) ==
  /\ ~Waiting(a)
  /\ locks' = [s \in Sectors |-> Freed(locks, s)]
  /\ waiters' = [s \in Sectors |-> Woken(locks, waiters, s)]
  /\ holds' = [holds EXCEPT ![a] = {}]
  /\ lastCall' = [op |-> "release_all", agent |-> a, sector |-> <<0, 0>>,
                  result |-> \E s \in Sectors : locks[s] = "locked"]
  /\ UNCHANGED <<agentVars, busVars, botVars>>

\* ------------------------------------------------------ MinerBot.py: MinerBot
\* the value of `mining` of a bot that is outside the locked part of a step
NoSector == <<>>

\* MinerBot.__init__, lines 135-144: `self._locks = SectorLockManager()`, one
\* manager per bot
MinerInit ==
  /\ mlocks = [a \in Agents |-> [s \in Sectors |-> "absent"]]
  /\ mining = [a \in Agents |-> NoSector]

\* the part of the loop task's bookkeeping a step of act() leaves alone
ActFrame == UNCHANGED <<should_stop, task, must_cancel, awaiting, terminations,
                        overlapped, crashed, selfStopped>>

\* MinerBot._perform_mining_step, lines 269-289, run by act() for the action
\* "mine" on a target of sector s: acquire(sector, timeout=0.5) on the bot's
\* own manager. A free lock is taken at once and the step suspends in the
\* simulated mining (sleep(0.05)); on a lock left locked acquire() gives
\* False after the timeout and the step is skipped (lines 281-283).
MineBegin(a, t, s) ==
  /\ pc[a][t] = "act"
  /\ Resumes(a, t)
  /\ mining[a] = NoSector
  /\ state[a] # "PAUSED"
  /\ IF mlocks[a][s] # "locked"
     THEN /\ mlocks' = [mlocks EXCEPT ![a][s] = "locked"]
          /\ mining' = [mining EXCEPT ![a] = s]
          /\ Record(a, "mine_begin", LoopTask(t), <<>>, 0, FALSE)
          /\ UNCHANGED pc
     ELSE /\ pc' = [pc EXCEPT ![a][t] = "yield"]
          /\ Record(a, "mine_skip", LoopTask(t), <<>>, 0, FALSE)
          /\ UNCHANGED <<mlocks, mining>>
  /\ ActFrame
  /\ UNCHANGED <<busVars, lockVars, explorerVars, builderVars, ctlVars>>

\* MinerBot._perform_mining_step, lines 291-304: the mining is over, the
\* sector is released (SectorLockManager.release on the bot's own manager)
\* and act() returns
MineEnd(a, t) ==
  /\ pc[a][t] = "act"
  /\ Resumes(a, t)
  /\ mining[a] # NoSector
  /\ mlocks' = [mlocks EXCEPT ![a][mining[a]] = IF @ = "locked" THEN "free" ELSE @]
  /\ mining' = [mining EXCEPT ![a] = NoSector]
  /\ pc' = [pc EXCEPT ![a][t] = "yield"]
  /\ Record(a, "mine_end", LoopTask(t), <<>>, 0, FALSE)
  /\ ActFrame
  /\ UNCHANGED <<busVars, lockVars, explorerVars, builderVars, ctlVars>>

\* ------------------------------------------------------------ ExplorerBot.py
\* the scanned area: x in 0..MaxX, z in {0, 1}; the elevations getHeight gives
MaxX == 2
Cells == (0..MaxX) \X {0, 1}
Elevations == {3, 5}

\* sorted(set(...)), lines 171-172
RECURSIVE Sorted(_)
Sorted(S) ==
  IF S = {} THEN <<>>
  ELSE LET m == CHOOSE x \in S : \A y \in S : x <= y
       IN <<m>> \o Sorted(S \ {m})

\* decide, lines 162-164: the coordinates of elevation h
LevelCoords(hm, h) == {c \in DOMAIN hm : hm[c] = h}

\* decide, lines 171-183: the grid of one level over the x and z values that
\* occur in it, as rows of z: matrix[z][x], indices counted from 1 here
Matrix(coords) ==
  LET xs == Sorted({c[1] : c \in coords})
      zs == Sorted({c[2] : c \in coords})
  IN [zi \in 1..Len(zs) |->
        [xi \in 1..Len(xs) |-> IF <<xs[xi], zs[zi]>> \in coords THEN 1 ELSE 0]]

\* _largest_rectangle_hist, lines 272-279: the `while` loop that pops the
\* bars taller than h; stack entries are <<index, height>>, indices from 0
RECURSIVE HistPop(_, _, _, _, _)
HistPop(stack, h, i, start, acc) ==
  IF stack # <<>> /\ Last(stack)[2] > h
  THEN LET index == Last(stack)[1]
           height == Last(stack)[2]
           area == height * (i - index)
       IN HistPop(SubSeq(stack, 1, Len(stack) - 1), h, i, index,
                  IF area > acc.max_area
                  THEN [max_area |-> area, left |-> index, right |-> i - 1]
                  ELSE acc)
  ELSE [stack |-> stack, start |-> start, acc |-> acc]

\* _largest_rectangle_hist, lines 270-280: the `for` loop, i counted from 0
RECURSIVE HistLoop(_, _, _, _)
HistLoop(hs, i, stack, acc) ==
  IF i >= Len(hs) THEN acc
  ELSE LET r == HistPop(stack, hs[i + 1], i, i, acc)
       IN HistLoop(hs, i + 1, Append(r.stack, <<r.start, hs[i + 1]>>), r.acc)

\* _largest_rectangle_hist, lines 263-283
LargestRectangleHist(heights) ==
  HistLoop(Append(heights, 0), 0, <<>>, [max_area |-> 0, left |-> 0, right |-> 0])

\* histogram heights that are not carried from one row to the next
RowHeightsNoCarry(matrix, prev, z) ==
  [x \in 1..Len(matrix[z]) |-> matrix[z][x]]

\* _largest_rectangle_in_matrix, lines 301-302: the histogram of row z
\* (counted from 1 here) from the histogram `prev` of the row before
RowHeights(matrix, prev, z) ==
  [x \in 1..Len(matrix[z]) |-> IF matrix[z][x] = 1 THEN prev[x] + 1 ELSE 0]

\* `best` of _largest_rectangle_in_matrix before a rectangle is found (None):
\* every rectangle found has area > 0
NoBest == [area |-> 0, z1 |-> 0, x1 |-> 0, z2 |-> 0, x2 |-> 0]

\* _largest_rectangle_in_matrix, lines 300-311: the loop over the rows, z
\* counted from 0 as in the code
RECURSIVE MatrixLoop(_, _, _, _)
MatrixLoop(matrix, z, heights, best) ==
  IF z >= Len(matrix) THEN best
  ELSE LET hs == RowHeights(matrix, heights, z + 1)
           r == LargestRectangleHist(hs)
           height == r.max_area \div (r.right - r.left + 1)
       IN MatrixLoop(matrix, z + 1, hs,
            IF r.max_area > 0 /\ (best = NoBest \/ r.max_area > best.area)
            THEN [area |-> r.max_area, z1 |-> z - height + 1, x1 |-> r.left,
                  z2 |-> z, x2 |-> r.right]
            ELSE best)

\* _largest_rectangle_in_matrix, lines 286-313
LargestRectangleInMatrix(matrix) ==
  IF matrix = <<>> THEN NoBest
  ELSE MatrixLoop(matrix, 0, [x \in 1..Len(matrix[1]) |-> 0], NoBest)

\* a decision without rectangle: {"best_rectangle": None}
NoRectangle == [found |-> FALSE, x1 |-> 0, z1 |-> 0, x2 |-> 0, z2 |-> 0,
                width |-> 0, height |-> 0, area |-> 0, y |-> 0]

\* decide, lines 169-198: the loop over the levels in their key order; `best`
\* is best_rect, NoRectangle standing for None
RECURSIVE LevelLoop(_, _, _, _)
LevelLoop(hm, order, i, best) ==
  IF i > Len(order) THEN best
  ELSE LET coords == LevelCoords(hm, order[i])
           xs == Sorted({c[1] : c \in coords})
           zs == Sorted({c[2] : c \in coords})
           rect == LargestRectangleInMatrix(Matrix(coords))
       IN LevelLoop(hm, order, i + 1,
            IF rect # NoBest /\ (~best.found \/ rect.area > best.area)
            THEN [found |-> TRUE,
                  x1 |-> xs[rect.x1 + 1], z1 |-> zs[rect.z1 + 1],
                  x2 |-> xs[rect.x2 + 1], z2 |-> zs[rect.z2 + 1],
                  width |-> 0, height |-> 0, area |-> rect.area, y |-> order[i]]
            ELSE best)

Abs(n) == IF n < 0 THEN 0 - n ELSE n

\* ExplorerBot.decide, lines 154-216
ExplorerDecision(hm, order) ==
  LET best == LevelLoop(hm, order, 1, NoRectangle)
  IN IF best.found
     THEN [best EXCEPT !.width = Abs(best.x2 - best.x1) + 1,
                       !.height = Abs(best.z2 - best.z1) + 1]
     ELSE NoRectangle

\* ExplorerBot.__init__: nothing scanned yet
ExplorerInit ==
  /\ height_map = <<>>
  /\ level_order = <<>>
  /\ decided = FALSE
  /\ best_rectangle = NoRectangle

\* perceive, lines 146-148: the height h of one more coordinate enters
\* height_map
ScanCell(c, h) ==
  /\ ~decided
  /\ c \notin DOMAIN height_map
  /\ height_map' = [d \in DOMAIN height_map \cup {c} |->
                      IF d = c THEN h ELSE height_map[d]]
  /\ level_order' = IF h \in Range(level_order) THEN level_order
                    ELSE Append(level_order, h)
  /\ UNCHANGED <<decided, best_rectangle>>
  /\ UNCHANGED <<agentVars, busVars, lockVars, minerVars, builderVars, ctlVars>>

\* decide(percept) on the height_map perceive returned
ExplorerDecide ==
  /\ ~decided
  /\ decided' = TRUE
  /\ best_rectangle' = ExplorerDecision(height_map, level_order)
  /\ UNCHANGED <<height_map, level_order>>
  /\ UNCHANGED <<agentVars, busVars, lockVars, minerVars, builderVars, ctlVars>>

\* perceive, line 145: the next scan starts from an empty height_map
Rescan ==
  /\ decided
  /\ height_map' = <<>>
  /\ level_order' = <<>>
  /\ decided' = FALSE
  /\ best_rectangle' = NoRectangle
  /\ UNCHANGED <<agentVars, busVars, lockVars, minerVars, builderVars, ctlVars>>

\* ------------------------------------------------------------- BuilderBot.py
\* the agent that is the BuilderBot
Builder == "a2"

\* the selected template, TEMPLATES[self._template_name]: its footprint, its
\* number of layers (tpl["height"]) and its materials, one material in the
\* quantity Need
TplWidth == 2
TplDepth == 2
Layers == 2
Need == 2

\* the templates loaded from ./Schematics (load_all_templates, lines 19-59):
\* "t1" is the default, list(TEMPLATES.keys())[0]; "t2" has one layer less
Templates == {"t1", "t2"}
LayersOf(name) == IF name = "t1" THEN Layers ELSE Layers - 1
\* tpl["width"] of the template: the second template is narrower
WidthOf(name) == IF name = "t1" THEN TplWidth ELSE TplWidth - 1

\* the classes of agents
BotKinds == {"explorer", "builder", "miner"}

\* the verbs of the control commands
Verbs == {"pause", "resume", "stop"}

\* command: the last control message published. kind and verb give its type
\* command.<kind>.<verb>.v1, target is msg["target"], agent is the agent whose
\* subscriptions are followed, calls are the control methods the delivery
\* executed on that agent, in order
NoCommand == [kind |-> "none", verb |-> "none", agent |-> "none",
              target |-> "none", calls |-> <<>>]

\* self._last_map is None
NoMap == [width |-> 0, height |-> 0, x1 |-> 0]

\* no build.v1 was published
NoBuildV1 == [progress |-> 0, layers |-> 0]

BuildExtInit ==
  /\ build_v1 = NoBuildV1
  /\ layer_bases = <<>>

\* the MinerBot of the model
Miner == "a1"

\* the materials of a BOM and of _simulate_material_from_target, lines 306-313,
\* and the largest quantity a BOM asks of one material
Materials == {"stone", "wood"}
MaxNeed == 1

\* a BOM is a dict from material to quantity: a material it does not name
\* has quantity 0 here, so the empty dict is the function that is 0 everywhere
Boms == [Materials -> 0..MaxNeed]
EmptyBom == [mat \in Materials |-> 0]

\* self._current_bom is None (line 138)
NoBom == [set |-> FALSE, need |-> EmptyBom]

\* no cycle has decided yet
NoCycle == [bom |-> NoBom, inventory |-> EmptyBom, decision |-> "none"]

\* MinerBot.__init__, lines 135-144
MinerExtInit ==
  /\ miner_bom = NoBom
  /\ miner_inventory = EmptyBom
  /\ miner_cycle = NoCycle
  /\ pending_start = 0
  /\ bom_target = "none"

\* the ExplorerBot of the model
Explorer == "a1"

\* the largest coordinate and range of a start command
MaxReq == 2

\* x, z and range of the payload of a start command
Requests == {<<x, 0, r>> : x \in 1..MaxReq, r \in 1..MaxReq}

\* self._queued_request is None
NoRequest == <<0, 0, 0>>

\* self.range of a new ExplorerBot
DefaultRange == 30

\* ExplorerBot.__init__, lines 40-43
ExplorerExtInit ==
  /\ center = <<0, 0>>
  /\ range = DefaultRange
  /\ queued_request = NoRequest
  /\ scan_args = NoRequest
  /\ scan_maps = 0
  /\ start_req = NoRequest

ExtInit == BuildExtInit /\ MinerExtInit /\ ExplorerExtInit

\* map_msg: the target and the best_rectangle of the last map.v1 message
\* delivered to the builder
NoMapMsg == [target |-> "none", rect |-> NoMap]

CtlInit ==
  /\ template_name = "t1"
  /\ bot_kind = [a \in Agents |-> IF a = Builder THEN "builder" ELSE "explorer"]
  /\ command = NoCommand
  /\ spiral_args = <<0, 0, 0>>
  /\ spiral_coords = <<>>
  /\ map_msg = NoMapMsg
  /\ ExtInit

\* ------------------------------------------------------- explorer strategies
\* the start points and radii search_spiral is called with
MaxStart == 2
MaxRadius == 3

Max(a, b) == IF a >= b THEN a ELSE b

\* search_spiral, lines 33-38: `n` iterations of the inner loop from the
\* position, direction and coordinate list of st: the position is appended
\* unless it was visited, then moved by one step
RECURSIVE SpiralSteps(_, _)
SpiralSteps(st, n) ==
  IF n = 0 THEN st
  ELSE SpiralSteps([st EXCEPT
                      !.coords = IF <<st.x, st.z>> \in Range(@)
                                 THEN @ ELSE Append(@, <<st.x, st.z>>),
                      !.x = @ + st.dx,
                      !.z = @ + st.dz], n - 1)

\* search_spiral, line 39: dx, dz = -dz, dx
SpiralTurn(st) == [st EXCEPT !.dx = 0 - st.dz, !.dz = st.dx]

\* search_spiral, lines 31-41: the `while` loop. Its test is made once per
\* two legs of `steps` steps each, on the position the last leg ended at
RECURSIVE SpiralLoop(_, _, _, _, _)
SpiralLoop(st, steps, cx, cz, radius) ==
  IF Max(Abs(st.x - cx), Abs(st.z - cz)) <= radius
  THEN SpiralLoop(SpiralTurn(SpiralSteps(SpiralTurn(SpiralSteps(st, steps)), steps)),
                  steps + 1, cx, cz, radius)
  ELSE st.coords

\* search_spiral, lines 22-43
SearchSpiral(start_x, start_z, radius) ==
  SpiralLoop([x |-> start_x, z |-> start_z, dx |-> 1, dz |-> 0, coords |-> <<>>],
             1, start_x, start_z, radius)

\* a call of search_spiral that returns
RunSpiral(start_x, start_z, radius) ==
  /\ spiral_args' = <<start_x, start_z, radius>>
  /\ spiral_coords' = SearchSpiral(start_x, start_z, radius)
  /\ UNCHANGED <<template_name, bot_kind, command, map_msg, extVars>>
  /\ UNCHANGED <<agentVars, busVars, lockVars, minerVars, explorerVars, builderVars>>

\* the type command.<kind>.<verb>.v1
CommandType(kind, verb) == <<"command", kind, verb, "v1">>

InventoryV1 == <<"inventory", "v1">>
MaterialsRequirementsV1 == <<"materials", "requirements", "v1">>

\* the subscribe() calls of the constructors, in order: ExplorerBot.__init__
\* lines 50-57, BuilderBot.__init__ lines 82-88, MinerBot.__init__ lines
\* 148-151
SubscriptionsOf(kind) ==
  IF kind = "explorer"
  THEN << <<CommandType("explorer", "start"), "_on_start_cmd">>,
          <<CommandType("explorer", "set"), "_on_update_cmd">>,
          <<CommandType("explorer", "pause"), "_on_control">>,
          <<CommandType("explorer", "resume"), "_on_control">>,
          <<CommandType("explorer", "stop"), "_on_control">>,
          <<CommandType("explorer", "status"), "_on_control">>,
          <<Wildcard, "_on_generic">> >>
  ELSE IF kind = "builder"
  THEN << <<MapV1, "_on_map">>,
          <<InventoryV1, "_on_inventory">>,
          <<CommandType("builder", "start"), "_on_start_cmd">>,
          <<CommandType("builder", "set"), "_on_update_cmd">>,
          <<CommandType("builder", "list"), "_on_control">>,
          <<CommandPattern, "_on_control">>,
          <<Wildcard, "_on_generic">> >>
  ELSE << <<MaterialsRequirementsV1, "_on_materials_request">>,
          <<CommandPattern, "_on_command_message">>,
          <<Wildcard, "_on_generic_message">> >>

\* the keys self.subscribers is read or written with
BusKeys ==
  {CommandType(k, v) : k \in BotKinds,
                       v \in Verbs \cup {"start", "set", "status", "list"}}
    \cup {MapV1, InventoryV1, MaterialsRequirementsV1, CommandPattern, Wildcard}

\* MessageBus.subscribe, lines 5-8: self.subscribers after the constructor
\* of a bot of this kind: under each key the callbacks in subscription order
BusOf(kind) ==
  [tp \in BusKeys |->
     LET subs == SubscriptionsOf(kind)
         idx == SelectSeq([i \in 1..Len(subs) |-> i], LAMBDA i : subs[i][1] = tp)
     IN [j \in 1..Len(idx) |-> subs[idx[j]][2]]]

\* the handlers that execute pause(), resume() and stop(): ExplorerBot and
\* BuilderBot._on_control, MinerBot._on_command_message
ControlHandlers == {"_on_control", "_on_command_message"}

\* the control methods executed on agent a by publish() of a message of this
\* type and target: each control handler among the recipients tests the
\* target and then the end of the type (.pause.v1, .resume.v1, .stop.v1)
ControlCalls(a, type, target) ==
  LET hs == Recipients(BusOf(bot_kind[a]), type)
      ctl == SelectSeq(hs, LAMBDA h : /\ h \in ControlHandlers
                                      /\ target \in {a, "*"}
                                      /\ type[Len(type)] = "v1"
                                      /\ type[Len(type) - 1] \in Verbs)
  IN [i \in 1..Len(ctl) |-> type[Len(type) - 1]]

\* bus.publish() of command.<kind>.<verb>.v1, kind being the class of agent
\* a, made by the outside task c: MessageBus.publish, lines 10-13, with the
\* handlers it awaits. No type has more than one control handler among its
\* recipients, so at most one control method is executed.
PublishCommand(a, verb, target, c) ==
  LET type == CommandType(bot_kind[a], verb)
      calls == ControlCalls(a, type, target)
  IN
  /\ CanRun(a, c)
  /\ command' = [kind |-> bot_kind[a], verb |-> verb, agent |-> a,
                 target |-> target, calls |-> calls]
  /\ IF calls = <<>>
     THEN /\ Record(a, "command_unhandled", c, <<>>, 0, FALSE)
          /\ UNCHANGED <<should_stop, task, pc, must_cancel, awaiting,
                         terminations, overlapped, crashed, selfStopped>>
     ELSE IF calls[1] = "pause" THEN PauseCall(a)
     ELSE IF calls[1] = "resume" THEN ResumeCall(a)
     ELSE StopCall(a, c)
  /\ UNCHANGED <<template_name, bot_kind, spiral_args, spiral_coords, map_msg, extVars>>
  /\ UNCHANGED <<busVars, lockVars, minerVars, explorerVars, builderVars>>

\* BaseAgent.__init__ for every agent, followed for a BuilderBot by line 80 of
\* BuilderBot.__init__: set_state(WAITING, "Waiting for map")
Constructed(kinds) ==
  /\ state = [a \in Agents |-> IF kinds[a] = "builder" THEN "WAITING" ELSE "IDLE"]
  /\ should_stop = [a \in Agents |-> FALSE]
  /\ task = [a \in Agents |-> 0]
  /\ pc = [a \in Agents |-> [t \in TaskIds |-> "unborn"]]
  /\ must_cancel = [a \in Agents |-> [t \in TaskIds |-> FALSE]]
  /\ awaiting = [a \in Agents |-> [c \in Callers \cup LoopTasks |-> 0]]
  /\ checkpoints = [a \in Agents |-> 0]
  /\ terminations = [a \in Agents |-> 0]
  /\ overlapped = [a \in Agents |-> FALSE]
  /\ crashed = [a \in Agents |-> FALSE]
  /\ selfStopped = [a \in Agents |-> [t \in TaskIds |-> FALSE]]
  /\ log = NoLog

\* the rectangles of the map.v1 messages: one cell short of the footprint or
\* equal to it on each axis
MapRects == {[width |-> w, height |-> d, x1 |-> 0] :
               w \in {TplWidth - 1, TplWidth}, d \in {TplDepth - 1, TplDepth}}

NoPercept == [map |-> NoMap, inventory |-> 0, bom |-> 0, build_progress |-> 0]

\* BuilderBot.__init__, lines 71-77, and MinerBot.__init__, lines 137-138
BuilderInit ==
  /\ last_map = NoMap
  /\ bom = 0
  /\ material_inventory = 0
  /\ build_progress = 0
  /\ build_plan = 0
  /\ map_event = FALSE
  /\ percept = NoPercept
  /\ decision = "none"
  /\ build_status = "none"
  /\ current_bom = 0
  /\ inventory = 0

\* BaseAgent.__init__ followed by BuilderBot.__init__, line 80:
\* set_state(WAITING, "Waiting for map")
BuilderConstructed ==
  /\ state = [a \in Agents |-> IF a = Builder THEN "WAITING" ELSE "IDLE"]
  /\ should_stop = [a \in Agents |-> FALSE]
  /\ task = [a \in Agents |-> 0]
  /\ pc = [a \in Agents |-> [t \in TaskIds |-> "unborn"]]
  /\ must_cancel = [a \in Agents |-> [t \in TaskIds |-> FALSE]]
  /\ awaiting = [a \in Agents |-> [c \in Callers \cup LoopTasks |-> 0]]
  /\ checkpoints = [a \in Agents |-> 0]
  /\ terminations = [a \in Agents |-> 0]
  /\ overlapped = [a \in Agents |-> FALSE]
  /\ crashed = [a \in Agents |-> FALSE]
  /\ selfStopped = [a \in Agents |-> [t \in TaskIds |-> FALSE]]
  /\ log = NoLog

\* the values of msg["target"]: an agent_id or "*"
Targets == Agents \cup {"*"}

\* the test of lines 117-122, for the footprint of the selected template
TooSmall(rect) == rect.width < WidthOf(template_name) \/ rect.height < TplDepth

\* an _on_map that stores any rectangle it is sent
OnMapAcceptsAny(target, rect) ==
  /\ map_msg' = [target |-> target, rect |-> rect]
  /\ IF target \notin {Builder, "*"} \/ rect = NoMap
     THEN /\ Record(Builder, "on_map_ignored", Anyone, <<>>, 0, FALSE)
          /\ UNCHANGED <<last_map, map_event>>
     ELSE /\ last_map' = rect
          /\ map_event' = TRUE
          /\ Record(Builder, "on_map", Anyone,
                    <<Edge(state[Builder], "RUNNING", "Processing map")>>, 0, FALSE)
  /\ UNCHANGED <<should_stop, task, pc, must_cancel, awaiting, terminations,
                 overlapped, crashed, selfStopped>>
  /\ UNCHANGED <<bom, material_inventory, build_progress, build_plan, percept,
                 decision, build_status, current_bom, inventory>>
  /\ UNCHANGED <<template_name, bot_kind, command, spiral_args, spiral_coords, extVars>>
  /\ UNCHANGED <<busVars, lockVars, minerVars, explorerVars>>

\* BuilderBot._on_map, lines 91-129, called by the bus with a map.v1 message
\* of this target and best_rectangle (NoMap for None)
OnMapMessage(target, rect) ==
  /\ map_msg' = [target |-> target, rect |-> rect]
  /\ IF target \notin {Builder, "*"} \/ rect = NoMap \/ TooSmall(rect)
     THEN /\ Record(Builder, "on_map_ignored", Anyone, <<>>, 0, FALSE)
          /\ UNCHANGED <<last_map, map_event>>
     ELSE /\ last_map' = rect
          /\ map_event' = TRUE
          /\ Record(Builder, "on_map", Anyone,
                    <<Edge(state[Builder], "RUNNING", "Processing map")>>, 0, FALSE)
  /\ UNCHANGED <<should_stop, task, pc, must_cancel, awaiting, terminations,
                 overlapped, crashed, selfStopped>>
  /\ UNCHANGED <<bom, material_inventory, build_progress, build_plan, percept,
                 decision, build_status, current_bom, inventory>>
  /\ UNCHANGED <<template_name, bot_kind, command, spiral_args, spiral_coords, extVars>>
  /\ UNCHANGED <<busVars, lockVars, minerVars, explorerVars>>

\* rectangles of the size of the template whose corner x1 differs
MovedRects == {[width |-> TplWidth, height |-> TplDepth, x1 |-> x] : x \in 0..1}

\* a map.v1 message addressed to the builder
OnMap(rect) == OnMapMessage(Builder, rect)

\* BuilderBot._materials_ready, lines 263-264 (its only call, line 205, is
\* commented out)
MaterialsReady(b, inv) == inv >= b

\* BuilderBot.perceive, lines 188-195
BuilderPercept ==
  [map |-> last_map, inventory |-> material_inventory, bom |-> bom,
   build_progress |-> build_progress]

\* a decide() that finishes one layer short of the plan
BuilderDecisionFinishesEarly(p, plan, progress) ==
  IF p.map = NoMap THEN "wait_for_map"
  ELSE IF p.bom = 0 THEN "compute_bom"
  ELSE IF progress + 1 >= plan THEN "finish_building"
  ELSE "build_layer"

\* a decide() that goes on building when every layer is built
BuilderDecisionNeverFinishes(p, plan, progress) ==
  IF p.map = NoMap THEN "wait_for_map"
  ELSE IF p.bom = 0 THEN "compute_bom"
  ELSE "build_layer"

\* BuilderBot.decide, lines 197-216: the action returned for the percept p
\* when the plan has `plan` layers and `progress` of them are built. Lines
\* 206-207 follow the `return` of line 203 inside the same `if` block and
\* are never executed.
BuilderDecision(p, plan, progress) ==
  IF p.map = NoMap THEN "wait_for_map"
  ELSE IF p.bom = 0 THEN "compute_bom"
  ELSE IF progress >= plan THEN "finish_building"
  ELSE "build_layer"

\* BuilderBot.decide: its set_state() calls, lines 199 and 215
DecideSets(d, prev) ==
  IF d = "wait_for_map" THEN <<Edge(prev, "WAITING", "Waiting for map")>>
  ELSE IF d = "build_layer" THEN <<Edge(prev, "RUNNING", "Building")>>
  ELSE <<>>

\* One cycle of the builder's loop task from the `while` test of _run_loop to
\* the first suspension inside act(): perceive() and decide() do not suspend.
\*   wait_for_map     act() clears the event and waits for it (lines 225-228)
\*   compute_bom      _compute_and_send_bom, lines 249-261: the BOM is
\*                    published and MinerBot._on_materials_request (line 187)
\*                    stores it; act() returns
\*   build_layer      _build_next_layer places the blocks of the layer,
\*                    suspending after each (line 316), unless every layer
\*                    is built already (lines 286-287)
\*   finish_building  build.v1 COMPLETED is published with a checkpoint
\*                    (lines 322-332), the build is reset (lines 334-338) and
\*                    self.idle() calls super().idle(), which BaseAgent does
\*                    not define: AttributeError ends the loop
BuilderCycle(t) ==
  LET p == BuilderPercept
      plan == IF p.map # NoMap /\ p.bom # 0 /\ build_plan = 0
              THEN LayersOf(template_name) ELSE build_plan
      d == BuilderDecision(p, plan, build_progress)
      sets == DecideSets(d, state[Builder])
      now == FinalState(state[Builder], sets)
  IN
  /\ pc[Builder][t] \in {"created", "sleep", "yield"}
  /\ Resumes(Builder, t)
  /\ ~should_stop[Builder]
  /\ state[Builder] \notin {"PAUSED", "STOPPED", "ERROR"}
  /\ percept' = p
  /\ decision' = d
  /\ IF d = "finish_building"
     THEN /\ Finish(Builder, t)
          /\ crashed' = [crashed EXCEPT ![Builder] = TRUE]
          /\ Record(Builder, d, LoopTask(t),
                    <<Edge(now, "ERROR", "exception")>> \o Finally(Builder, "ERROR"),
                    2 + Len(Finally(Builder, "ERROR")), FALSE)
          /\ build_status' = "COMPLETED"
          /\ build_v1' = [progress |-> build_progress, layers |-> plan]
          /\ layer_bases' = <<>>
          /\ build_progress' = 0
          /\ build_plan' = 0
          /\ bom' = 0
          /\ material_inventory' = 0
          /\ UNCHANGED <<map_event, current_bom>>
     ELSE /\ pc' = [pc EXCEPT ![Builder][t] =
                   IF d = "compute_bom" \/ (d = "build_layer" /\ build_progress >= plan)
                   THEN "yield" ELSE "act"]
          /\ Record(Builder, d, LoopTask(t), sets, 0, FALSE)
          /\ build_plan' = plan
          /\ bom' = IF d = "compute_bom" THEN Need ELSE bom
          /\ current_bom' = IF d = "compute_bom" THEN Need ELSE current_bom
          /\ map_event' = IF d = "wait_for_map" THEN FALSE ELSE map_event
          /\ layer_bases' = IF d = "build_layer" /\ build_progress < plan
                            THEN Append(layer_bases, last_map.x1) ELSE layer_bases
          /\ UNCHANGED build_v1
          /\ UNCHANGED <<must_cancel, terminations, crashed, build_status,
                         build_progress, material_inventory>>
  /\ UNCHANGED <<should_stop, task, awaiting, overlapped, selfStopped>>
  /\ UNCHANGED <<last_map, inventory>>
  /\ UNCHANGED <<ctlCore, minerExt, explorerExt>>
  /\ UNCHANGED <<busVars, lockVars, minerVars, explorerVars>>

\* act(), lines 228-231: the event is set, act() returns
BuilderMapArrived(t) ==
  /\ pc[Builder][t] = "act"
  /\ Resumes(Builder, t)
  /\ decision = "wait_for_map"
  /\ map_event
  /\ pc' = [pc EXCEPT ![Builder][t] = "yield"]
  /\ Record(Builder, "map_arrived", LoopTask(t), <<>>, 0, FALSE)
  /\ ActFrame
  /\ UNCHANGED builderVars
  /\ UNCHANGED <<busVars, lockVars, minerVars, explorerVars, ctlVars>>

\* _build_next_layer, lines 306-319: the last block of the layer is placed
\* (the test of lines 286-287 was made before the first suspension, in
\* BuilderCycle)
BuilderLayerBuilt(t) ==
  /\ pc[Builder][t] = "act"
  /\ Resumes(Builder, t)
  /\ decision = "build_layer"
  /\ build_progress' = build_progress + 1
  /\ pc' = [pc EXCEPT ![Builder][t] = "yield"]
  /\ Record(Builder, "layer_built", LoopTask(t), <<>>, 0, FALSE)
  /\ ActFrame
  /\ UNCHANGED <<last_map, bom, material_inventory, build_plan, map_event,
                 percept, decision, build_status, current_bom, inventory>>
  /\ UNCHANGED <<busVars, lockVars, minerVars, explorerVars, ctlVars>>

\* MinerBot._perform_mining_step, lines 291-293, for the miner that got the
\* BOM: one more unit of the material while the BOM is not fulfilled
\* (decide, lines 233-240)
MinerMines ==
  /\ current_bom # 0
  /\ inventory < current_bom
  /\ inventory' = inventory + 1
  /\ UNCHANGED <<last_map, bom, material_inventory, build_progress, build_plan,
                 map_event, percept, decision, build_status, current_bom>>
  /\ UNCHANGED <<agentVars, busVars, lockVars, minerVars, explorerVars, ctlVars>>

\* MinerBot._publish_inventory, lines 324-341, with BuilderBot._on_inventory,
\* lines 131-137: inventory.v1 carries a copy of the miner's inventory. It is
\* published from time to time (_maybe_publish_inventory), when a mining step
\* fulfils the BOM (line 300), and as the final report (act, lines 249-253),
\* after which the BOM is cleared.
MinerPublishesInventory(final) ==
  /\ final => current_bom # 0 /\ inventory >= current_bom
  /\ material_inventory' = inventory
  /\ current_bom' = IF final THEN 0 ELSE current_bom
  /\ UNCHANGED <<last_map, bom, build_progress, build_plan, map_event, percept,
                 decision, build_status, inventory>>
  /\ UNCHANGED <<agentVars, busVars, lockVars, minerVars, explorerVars, ctlVars>>

\* an _on_update_cmd that makes the plan anew from the template it selects
OnUpdateCmdReplanning(name) ==
  /\ template_name' = IF name \in Templates THEN name ELSE template_name
  /\ build_plan' = IF name \in Templates /\ build_plan # 0 THEN LayersOf(name) ELSE build_plan
  /\ Record(Builder, "update", Anyone, <<>>, 0, FALSE)
  /\ UNCHANGED <<should_stop, task, pc, must_cancel, awaiting, terminations,
                 overlapped, crashed, selfStopped>>
  /\ UNCHANGED <<last_map, bom, material_inventory, build_progress, map_event,
                 percept, decision, build_status, current_bom, inventory>>
  /\ UNCHANGED <<bot_kind, command, spiral_args, spiral_coords, map_msg, extVars>>
  /\ UNCHANGED <<busVars, lockVars, minerVars, explorerVars>>

\* BuilderBot._on_update_cmd, lines 150-165, for a payload {"schem": name}
\* addressed to the builder: a template that is loaded is selected
OnUpdateCmd(name) ==
  /\ template_name' = IF name \in Templates THEN name ELSE template_name
  /\ Record(Builder, "update", Anyone, <<>>, 0, FALSE)
  /\ UNCHANGED <<should_stop, task, pc, must_cancel, awaiting, terminations,
                 overlapped, crashed, selfStopped>>
  /\ UNCHANGED builderVars
  /\ UNCHANGED <<bot_kind, command, spiral_args, spiral_coords, map_msg, extVars>>
  /\ UNCHANGED <<busVars, lockVars, minerVars, explorerVars>>

\* ---------------------------------------------------- ExplorerBot start queue
\* what a step of the explorer leaves alone
ExplorerFrame ==
  UNCHANGED <<busVars, lockVars, minerVars, explorerVars, builderVars, ctlCore,
              buildExt, minerExt>>

\* an _on_start_cmd that takes the request at once, whatever the state
OnStartCmdAtOnce(target, req) ==
  /\ target \in {Explorer, "*"}
  /\ start_req' = req
  /\ center' = <<req[1], req[2]>>
  /\ range' = req[3]
  /\ StartCall(Explorer)
  /\ UNCHANGED <<queued_request, scan_args, scan_maps>>
  /\ ExplorerFrame

\* ExplorerBot._on_start_cmd, lines 75-94, for a message with this target and
\* a payload with x, z and range: in state RUNNING the request is queued, in
\* any other state it becomes center and range and start() is called
OnStartCmd(target, req) ==
  IF target \notin {Explorer, "*"}
  THEN /\ Record(Explorer, "start_cmd_ignored", Anyone, <<>>, 0, FALSE)
       /\ UNCHANGED <<should_stop, task, pc, must_cancel, awaiting, terminations,
                      overlapped, crashed, selfStopped>>
       /\ UNCHANGED explorerExt
       /\ ExplorerFrame
  ELSE IF state[Explorer] = "RUNNING"
  THEN /\ start_req' = req
       /\ queued_request' = req
       /\ Record(Explorer, "start_queued", Anyone, <<>>, 0, FALSE)
       /\ UNCHANGED <<should_stop, task, pc, must_cancel, awaiting, terminations,
                      overlapped, crashed, selfStopped>>
       /\ UNCHANGED <<center, range, scan_args, scan_maps>>
       /\ ExplorerFrame
  ELSE /\ start_req' = req
       /\ center' = <<req[1], req[2]>>
       /\ range' = req[3]
       /\ StartCall(Explorer)
       /\ UNCHANGED <<queued_request, scan_args, scan_maps>>
       /\ ExplorerFrame

\* _run_loop, lines 112-124, up to the first wait of perceive: a cycle that
\* begins reads self.center and self.range (ExplorerBot.perceive, lines
\* 138-139) before it waits for the strategy and for the cells
ExplorerLoopCheck(t) ==
  /\ LoopCheckCall(Explorer, t)
  /\ scan_args' = IF pc'[Explorer][t] = "perceive"
                   THEN <<center[1], center[2], range>> ELSE scan_args
  /\ scan_maps' = IF pc'[Explorer][t] = "perceive" THEN 0 ELSE scan_maps
  /\ UNCHANGED <<center, range, queued_request, start_req>>
  /\ ExplorerFrame

\* the scan is over: decide (lines 154-216) and act (lines 218-257) run
\* without a wait. act publishes one map.v1; a queued request becomes center
\* and range and the queue is emptied; with no queued request act calls
\* self.idle() (line 257), which BaseAgent does not define
ExplorerAct(t) ==
  /\ pc[Explorer][t] = "perceive"
  /\ Resumes(Explorer, t)
  /\ scan_maps' = scan_maps + 1
  /\ IF queued_request # NoRequest
     THEN /\ center' = <<queued_request[1], queued_request[2]>>
          /\ range' = queued_request[3]
          /\ queued_request' = NoRequest
          /\ pc' = [pc EXCEPT ![Explorer][t] = "yield"]
          /\ Record(Explorer, "map_published", LoopTask(t), <<>>, 0, FALSE)
          /\ UNCHANGED <<should_stop, task, must_cancel, awaiting, terminations,
                         overlapped, crashed, selfStopped>>
     ELSE /\ Crash(Explorer, t, "map_published_last")
          /\ UNCHANGED <<center, range, queued_request>>
  /\ UNCHANGED <<scan_args, start_req>>
  /\ ExplorerFrame

\* ------------------------------------------------------------ MinerBot cycle
\* start() tasks that _on_materials_request may have created and that have
\* not run yet
MaxPending == 1

\* the payloads of a materials.requirements.v1 message: a dict, or a value
\* that is true and is not a dict (a list, a string)
Payloads == {[dict |-> TRUE, need |-> b] : b \in Boms}
              \cup {[dict |-> FALSE, need |-> EmptyBom]}

\* perceive, line 224: dict(self._current_bom) if self._current_bom else None;
\* an empty BOM is false and is perceived as no BOM
MinerPerceptBom(b) == IF b.set /\ b.need # EmptyBom THEN b ELSE NoBom

\* a _bom_fulfilled that is content with one material of the BOM
BomFulfilledAny(need, inv) ==
  \E mat \in Materials : need[mat] > 0 /\ inv[mat] >= need[mat]

\* MinerBot._bom_fulfilled, lines 263-267
BomFulfilled(need, inv) ==
  \A mat \in Materials : need[mat] > 0 => ~(inv[mat] < need[mat])

\* MinerBot.decide, lines 231-240
MinerDecision(b, inv) ==
  IF ~b.set THEN "idle"
  ELSE IF BomFulfilled(b.need, inv) THEN "report_complete"
  ELSE "mine"

\* what a miner step leaves alone
MinerFrame ==
  /\ UNCHANGED <<should_stop, task, must_cancel, awaiting, terminations,
                 overlapped, crashed, selfStopped>>
  /\ UNCHANGED <<busVars, lockVars, explorerVars, builderVars, ctlCore, buildExt, explorerExt>>

\* the sectors of the targets of the default strategy, GridStrategy (lines
\* 80-97, 279): x and z are in 0..4
GridSectors == {<<0, 0>>}

\* a timeout of the sector lock that ends the loop in ERROR
SkipStepFatal(t) ==
  /\ pc' = [pc EXCEPT ![Miner][t] = "done"]
  /\ Record(Miner, "mine_skip", LoopTask(t),
            <<Edge(state[Miner], "ERROR", "exception")>>, 1, FALSE)

\* _perform_mining_step, lines 280-283: acquire() returned False after its
\* timeout; the step returns, act returns, the loop sleeps (line 132)
SkipStep(t) ==
  /\ pc' = [pc EXCEPT ![Miner][t] = "yield"]
  /\ Record(Miner, "mine_skip", LoopTask(t), <<>>, 0, FALSE)

\* one cycle of the miner up to its first wait in act: perceive after its
\* sleep(0) (lines 222-229), decide (lines 231-240) and act (lines 242-258).
\* idle waits 0.2 s; report_complete gives the final report, with its
\* checkpoint when there is a bus, and clears the BOM; mine runs
\* _perform_mining_step (lines 269-285) up to the wait of line 289, or to its
\* return when the bot is paused or the sector lock is not had in time
MinerCycle(t) ==
  /\ pc[Miner][t] = "perceive"
  /\ Resumes(Miner, t)
  /\ LET b == MinerPerceptBom(miner_bom)
         d == MinerDecision(b, miner_inventory)
     IN  /\ miner_cycle' = [bom |-> b, inventory |-> miner_inventory, decision |-> d]
         /\ CASE d = "idle" ->
                  /\ pc' = [pc EXCEPT ![Miner][t] = "act"]
                  /\ Record(Miner, "idle", LoopTask(t), <<>>, 0, FALSE)
                  /\ UNCHANGED <<miner_bom, mlocks, mining>>
              [] d = "report_complete" ->
                  /\ miner_bom' = NoBom
                  /\ pc' = [pc EXCEPT ![Miner][t] = "yield"]
                  /\ Record(Miner, "report_complete", LoopTask(t), <<>>, 1, FALSE)
                  /\ UNCHANGED <<mlocks, mining>>
              [] d = "mine" /\ state[Miner] = "PAUSED" ->
                  /\ pc' = [pc EXCEPT ![Miner][t] = "yield"]
                  /\ Record(Miner, "mine_paused", LoopTask(t), <<>>, 0, FALSE)
                  /\ UNCHANGED <<miner_bom, mlocks, mining>>
              [] d = "mine" /\ state[Miner] # "PAUSED" ->
                  \E s \in GridSectors :
                     IF mlocks[Miner][s] # "locked"
                     THEN /\ mlocks' = [mlocks EXCEPT ![Miner][s] = "locked"]
                          /\ mining' = [mining EXCEPT ![Miner] = s]
                          /\ pc' = [pc EXCEPT ![Miner][t] = "act"]
                          /\ Record(Miner, "mine_begin", LoopTask(t), <<>>, 0, FALSE)
                          /\ UNCHANGED miner_bom
                     ELSE /\ SkipStep(t)
                          /\ UNCHANGED <<miner_bom, mlocks, mining>>
  /\ UNCHANGED <<miner_inventory, pending_start, bom_target>>
  /\ MinerFrame

\* act, lines 244-248: the sleep of the idle action is over
MinerIdleDone(t) ==
  /\ pc[Miner][t] = "act"
  /\ Resumes(Miner, t)
  /\ mining[Miner] = NoSector
  /\ pc' = [pc EXCEPT ![Miner][t] = "yield"]
  /\ Record(Miner, "idle_done", LoopTask(t), <<>>, 0, FALSE)
  /\ UNCHANGED <<minerVars, minerExt>>
  /\ MinerFrame

\* _perform_mining_step, lines 289-304, after the wait of line 289: one unit
\* of the material found, the sector lock released, self._mining reset
MinerMined(t, mat) ==
  /\ pc[Miner][t] = "act"
  /\ Resumes(Miner, t)
  /\ mining[Miner] # NoSector
  /\ miner_inventory' = [miner_inventory EXCEPT ![mat] = Min(@ + 1, MaxNeed)]
  /\ mlocks' = [mlocks EXCEPT ![Miner][mining[Miner]] = IF @ = "locked" THEN "free" ELSE @]
  /\ mining' = [mining EXCEPT ![Miner] = NoSector]
  /\ pc' = [pc EXCEPT ![Miner][t] = "yield"]
  /\ Record(Miner, "mined", LoopTask(t), <<>>, 0, FALSE)
  /\ UNCHANGED <<miner_bom, miner_cycle, pending_start, bom_target>>
  /\ MinerFrame

\* CancelledError raised in the miner's loop task at the await it is
\* suspended in: `except Exception` (line 301) does not catch it, `finally`
\* (lines 303-304) resets self._mining, and _run_loop returns (BaseAgent.py,
\* lines 134-136). Nothing on this path releases the sector lock.
MinerCancelled(t) ==
  /\ CancelledCall(Miner, t)
  /\ mining' = [mining EXCEPT ![Miner] = NoSector]
  /\ UNCHANGED <<mlocks, minerExt>>
  /\ UNCHANGED <<busVars, lockVars, explorerVars, builderVars, ctlCore, buildExt, explorerExt>>

\* MinerBot.stop, lines 357-361: release_all() of the bot's own lock manager
\* (lines 43-51), then BaseAgent.stop
MinerStop(c) ==
  /\ StopCall(Miner, c)
  /\ mlocks' = [mlocks EXCEPT ![Miner] =
                  [s \in Sectors |-> IF @[s] = "locked" THEN "free" ELSE @[s]]]
  /\ UNCHANGED <<mining, minerExt>>
  /\ UNCHANGED <<busVars, lockVars, explorerVars, builderVars, ctlCore, buildExt, explorerExt>>

\* MinerBot._on_materials_request, lines 168-193, for a message with this
\* target and payload. The handler does not look at the target. A payload
\* that is not a dict is logged and dropped; a dict becomes the BOM, and a
\* start() task is created unless the state is RUNNING.
OnMaterialsRequest(target, payload) ==
  /\ bom_target' = target
  /\ IF ~payload.dict
     THEN /\ Record(Miner, "bom_dropped", Anyone, <<>>, 0, FALSE)
          /\ UNCHANGED <<miner_bom, pending_start>>
     ELSE /\ state[Miner] # "RUNNING" => pending_start < MaxPending
          /\ miner_bom' = [set |-> TRUE, need |-> payload.need]
          /\ pending_start' = IF state[Miner] # "RUNNING"
                               THEN pending_start + 1 ELSE pending_start
          /\ Record(Miner, "bom_accepted", Anyone, <<>>, 0, FALSE)
  /\ UNCHANGED <<pc, miner_inventory, miner_cycle, minerVars>>
  /\ MinerFrame

\* a materials.requirements.v1 message addressed to the miner
OnBom(payload) == OnMaterialsRequest(Miner, payload)

\* the start() task created at line 191 runs: BaseAgent.start
PendingStart ==
  /\ pending_start > 0
  /\ pending_start' = pending_start - 1
  /\ StartCall(Miner)
  /\ UNCHANGED <<miner_bom, miner_inventory, miner_cycle, bom_target, minerVars>>
  /\ UNCHANGED <<busVars, lockVars, explorerVars, builderVars, ctlCore, buildExt, explorerExt>>

BotInit == MinerInit /\ ExplorerInit /\ BuilderInit /\ CtlInit

\* ------------------------------------------------------------ specifications
\* the subscriptions made by the constructors of two agents: a1 subscribes
\* h1 to "*" (ExplorerBot.__init__, line 57), then a2 subscribes h2 to
\* "map.v1" and to "*" (BuilderBot.__init__, lines 82 and 88)
Wiring == <<<<Wildcard, "h1">>, <<MapV1, "h2">>, <<Wildcard, "h2">>>>

WiredInit ==
  /\ subscribers = [tp \in Topics |->
        IF tp = MapV1 THEN <<"h2">>
        ELSE IF tp = Wildcard THEN <<"h1", "h2">> ELSE <<>>]
  /\ registered = Wiring
  /\ published = <<>>
  /\ failing = {}
  /\ delivered = <<>>
  /\ raised = FALSE

vars == <<agentVars, busVars, lockVars, botVars>>

\* Spec: one agent, a1, under every interleaving of its control calls (made
\* by outside tasks, stop() also by its own loop task) and its loop steps
Init == AgentInit /\ WiredInit /\ LockInit /\ BotInit

Next ==
  \/ Start("a1")
  \/ \E c \in Callers \cup LoopTasks : Stop("a1", c)
  \/ \E c \in Callers \cup LoopTasks : StopReturn("a1", c)
  \/ Pause("a1")
  \/ Resume("a1")
  \/ \E t \in TaskIds : LoopCheck("a1", t)
  \/ \E t \in TaskIds : Perceive("a1", t)
  \/ \E t \in TaskIds : Decide("a1", t)
  \/ \E t \in TaskIds : Act("a1", t)
  \/ \E t \in TaskIds : Cancelled("a1", t)

Spec == Init /\ [][Next]_vars

\* SpecCancel: Spec with cancellations of the loop task that do not come
\* from stop()
NextCancel ==
  \/ Start("a1")
  \/ \E c \in Callers \cup LoopTasks : Stop("a1", c)
  \/ \E c \in Callers \cup LoopTasks : StopReturn("a1", c)
  \/ Pause("a1")
  \/ Resume("a1")
  \/ CancelTask("a1")
  \/ \E t \in TaskIds : LoopCheck("a1", t)
  \/ \E t \in TaskIds : Perceive("a1", t)
  \/ \E t \in TaskIds : Decide("a1", t)
  \/ \E t \in TaskIds : Act("a1", t)
  \/ \E t \in TaskIds : Cancelled("a1", t)

SpecCancel == Init /\ [][NextCancel]_vars

\* SpecCommands: one bot of any class, a1, with its loop, under control
\* messages published on the bus it subscribed to in its constructor
InitCommands ==
  /\ \E k \in BotKinds :
        /\ bot_kind = [a \in Agents |-> IF a = Builder THEN "builder" ELSE k]
        /\ Constructed(bot_kind)
  /\ WiredInit /\ LockInit /\ MinerInit /\ ExplorerInit /\ BuilderInit
  /\ template_name = "t1"
  /\ command = NoCommand
  /\ spiral_args = <<0, 0, 0>>
  /\ spiral_coords = <<>>
  /\ map_msg = NoMapMsg
  /\ ExtInit

NextCommands ==
  \/ Start("a1")
  \/ \E verb \in Verbs, target \in Targets, c \in Callers :
        PublishCommand("a1", verb, target, c)
  \/ \E c \in Callers : StopReturn("a1", c)
  \/ \E t \in TaskIds : LoopCheck("a1", t)
  \/ \E t \in TaskIds : Perceive("a1", t)
  \/ \E t \in TaskIds : Decide("a1", t)
  \/ \E t \in TaskIds : Act("a1", t)
  \/ \E t \in TaskIds : Cancelled("a1", t)

SpecCommands == InitCommands /\ [][NextCommands]_vars

\* SpecSpiral: search_spiral called with every start point and radius
NextSpiral ==
  \E start_x \in (0 - MaxStart)..MaxStart, start_z \in (0 - MaxStart)..MaxStart,
     radius \in 0..MaxRadius : RunSpiral(start_x, start_z, radius)

SpecSpiral == Init /\ [][NextSpiral]_vars

\* SpecBus: the bus alone, under every order of subscribe() and publish()
\* calls, with any set of callbacks raising
BusSubscribe ==
  /\ \E tp \in Topics, cb \in Callbacks : Subscribe(tp, cb)
  /\ UNCHANGED <<agentVars, lockVars, botVars>>

BusPublish ==
  /\ \E type \in MsgTypes, bad \in SUBSET Callbacks : Publish(type, bad)
  /\ UNCHANGED <<agentVars, lockVars, botVars>>

InitBus == AgentInit /\ BusInit /\ LockInit /\ BotInit

NextBus == BusSubscribe \/ BusPublish

SpecBus == InitBus /\ [][NextBus]_vars

\* SpecLock: one SectorLockManager used by two agents, under every
\* interleaving of their acquire, release and release_all calls
NextLock ==
  \/ \E a \in Agents, s \in Sectors : Acquire(a, s)
  \/ \E a \in Agents, s \in Sectors : Granted(a, s)
  \/ \E a \in Agents, s \in Sectors : TimedOut(a, s)
  \/ \E a \in Agents, s \in Sectors : Release(a, s)
  \/ \E a \in Agents : ReleaseAll(a)

SpecLock == InitBus /\ [][NextLock]_vars

\* SpecAgents: two agents on one bus; each is started and runs its cycles,
\* and act() may publish
NextAgents ==
  \/ \E a \in Agents : Start(a)
  \/ \E a \in Agents, t \in TaskIds : LoopCheck(a, t)
  \/ \E a \in Agents, t \in TaskIds : Perceive(a, t)
  \/ \E a \in Agents, t \in TaskIds : Decide(a, t)
  \/ \E a \in Agents, t \in TaskIds : Act(a, t)
  \/ \E a \in Agents, t \in TaskIds : ActPublish(a, t)

SpecAgents == Init /\ [][NextAgents]_vars

\* SpecLockFair: SpecLock where the timer of every pending
\* acquire(sector, timeout=T) fires (asyncio.wait_for)
SpecLockFair ==
  SpecLock /\ \A a \in Agents, s \in Sectors : WF_vars(TimedOut(a, s))

\* SpecMiners: two MinerBot agents, each started and running its cycles, whose
\* act() runs mining steps
NextMiners ==
  \/ \E a \in Agents : Start(a)
  \/ \E a \in Agents, t \in TaskIds : LoopCheck(a, t)
  \/ \E a \in Agents, t \in TaskIds : Perceive(a, t)
  \/ \E a \in Agents, t \in TaskIds : Decide(a, t)
  \/ \E a \in Agents, t \in TaskIds, s \in Sectors : MineBegin(a, t, s)
  \/ \E a \in Agents, t \in TaskIds : MineEnd(a, t)

SpecMiners == Init /\ [][NextMiners]_vars

\* SpecExplorer: ExplorerBot.decide on every height map perceive can build
\* over the scanned area
\* SpecExplorerQueue: one ExplorerBot with the start commands of the bus, its
\* scans, and pause() and resume()
NextExplorerQueue ==
  \/ \E target \in Targets, req \in Requests : OnStartCmd(target, req)
  \/ \E t \in TaskIds : ExplorerLoopCheck(t)
  \/ \E t \in TaskIds : ExplorerAct(t)
  \/ Pause(Explorer)
  \/ Resume(Explorer)

SpecExplorerQueue == Init /\ [][NextExplorerQueue]_vars

\* SpecMinerWork: one MinerBot that is started by the BOM messages it gets,
\* its cycles, and the cancellation of its loop task from outside
NextMinerWork ==
  \/ \E payload \in Payloads : OnBom(payload)
  \/ PendingStart
  \/ \E t \in TaskIds : LoopCheck(Miner, t)
  \/ \E t \in TaskIds : MinerCycle(t)
  \/ \E t \in TaskIds : MinerIdleDone(t)
  \/ \E t \in TaskIds, mat \in Materials : MinerMined(t, mat)
  \/ CancelTask(Miner)
  \/ \E t \in TaskIds : MinerCancelled(t)

SpecMinerWork == Init /\ [][NextMinerWork]_vars

\* SpecMinerTargets: one MinerBot with the materials.requirements.v1 messages
\* of the bus, whatever their target
NextMinerTargets ==
  \/ \E target \in Targets, payload \in Payloads : OnMaterialsRequest(target, payload)
  \/ PendingStart
  \/ \E t \in TaskIds : LoopCheck(Miner, t)
  \/ \E t \in TaskIds : MinerCycle(t)
  \/ \E t \in TaskIds : MinerIdleDone(t)
  \/ \E t \in TaskIds, mat \in Materials : MinerMined(t, mat)

SpecMinerTargets == Init /\ [][NextMinerTargets]_vars

\* SpecMinerBom: one MinerBot with the BOM messages addressed to it and its
\* control calls
NextMinerBom ==
  \/ \E payload \in Payloads : OnBom(payload)
  \/ PendingStart
  \/ Pause(Miner)
  \/ Resume(Miner)
  \/ MinerStop(<<"ext", 1>>)
  \/ StopReturn(Miner, <<"ext", 1>>)
  \/ \E t \in TaskIds : LoopCheck(Miner, t)
  \/ \E t \in TaskIds : MinerCycle(t)
  \/ \E t \in TaskIds : MinerIdleDone(t)
  \/ \E t \in TaskIds, mat \in Materials : MinerMined(t, mat)
  \/ \E t \in TaskIds : MinerCancelled(t)

SpecMinerBom == Init /\ [][NextMinerBom]_vars

NextExplorer ==
  \/ \E c \in Cells, h \in Elevations : ScanCell(c, h)
  \/ ExplorerDecide
  \/ Rescan

SpecExplorer == Init /\ [][NextExplorer]_vars

\* SpecBuilder: the BuilderBot, started, fed by map.v1 messages and by the
\* inventory.v1 messages of the MinerBot that serves its BOM
InitBuilder == BuilderConstructed /\ WiredInit /\ LockInit /\ BotInit

NextBuilder ==
  \/ Start(Builder)
  \/ \E rect \in MapRects \cup {NoMap} : OnMap(rect)
  \/ \E t \in TaskIds : BuilderCycle(t)
  \/ \E t \in TaskIds : BuilderMapArrived(t)
  \/ \E t \in TaskIds : BuilderLayerBuilt(t)
  \/ MinerMines
  \/ \E final \in BOOLEAN : MinerPublishesInventory(final)

SpecBuilder == InitBuilder /\ [][NextBuilder]_vars

\* SpecBuilderPlace: the builder with maps whose rectangles fit the template
\* and lie at different places
NextBuilderPlace ==
  \/ Start(Builder)
  \/ \E rect \in MovedRects : OnMap(rect)
  \/ \E t \in TaskIds : BuilderCycle(t)
  \/ \E t \in TaskIds : BuilderMapArrived(t)
  \/ \E t \in TaskIds : BuilderLayerBuilt(t)
  \/ MinerMines
  \/ \E final \in BOOLEAN : MinerPublishesInventory(final)

SpecBuilderPlace == InitBuilder /\ [][NextBuilderPlace]_vars

\* SpecBuilderBus: SpecBuilder with template changes
NextBuilderBus ==
  \/ Start(Builder)
  \/ \E rect \in MapRects \cup {NoMap} : OnMap(rect)
  \/ \E name \in Templates \cup {"unknown"} : OnUpdateCmd(name)
  \/ \E t \in TaskIds : BuilderCycle(t)
  \/ \E t \in TaskIds : BuilderMapArrived(t)
  \/ \E t \in TaskIds : BuilderLayerBuilt(t)
  \/ MinerMines
  \/ \E final \in BOOLEAN : MinerPublishesInventory(final)

SpecBuilderBus == InitBuilder /\ [][NextBuilderBus]_vars

\* SpecBuilderMaps: the builder and its cycles under map.v1 messages of any
\* target and rectangle and under template changes
NextBuilderMaps ==
  \/ Start(Builder)
  \/ \E target \in Targets, rect \in MapRects \cup {NoMap} : OnMapMessage(target, rect)
  \/ \E name \in Templates \cup {"unknown"} : OnUpdateCmd(name)
  \/ \E t \in TaskIds : BuilderCycle(t)
  \/ \E t \in TaskIds : BuilderMapArrived(t)
  \/ \E t \in TaskIds : BuilderLayerBuilt(t)

SpecBuilderMaps == InitBuilder /\ [][NextBuilderMaps]_vars

\* ------------------------------------------------------------------ claims
\* the edges of the documented state machine, by the reason set_state() logs
AllowedEdge(e) ==
  \/ e[1] = "IDLE" /\ e[2] = "RUNNING" /\ e[3] = "start"
  \/ e[1] = "RUNNING" /\ e[2] = "PAUSED" /\ e[3] = "pause command"
  \/ e[1] = "PAUSED" /\ e[2] = "RUNNING" /\ e[3] = "resume command"
  \/ e[1] = "RUNNING" /\ e[2] = "STOPPED" /\ e[3] \in {"stop command", "loop finished"}
  \/ e[1] = "RUNNING" /\ e[2] = "ERROR" /\ e[3] = "exception"
  \/ e[1] \in {"IDLE", "STOPPED", "ERROR"} /\ e[2] = "RUNNING" /\ e[3] = "start"

\* C1: under every sequence of start/stop/pause/resume calls the state is one
\* of the six AgentState values and every change of state made by set_state()
\* follows an edge of the documented state machine.
C1_OnlyAllowedEdges ==
  /\ \A a \in Agents : state[a] \in AgentState
  /\ \A i \in 1..Len(log.sets) :
       log.sets[i][1] # log.sets[i][2] => AllowedEdge(log.sets[i])

\* C2: an agent never has more than one unfinished loop task, whatever the
\* interleaving of start() calls with the other calls and the loop's steps.
C2_AtMostOneLoop == \A a \in Agents : Cardinality(LiveTasks(a)) <= 1

\* C2 witness: start() was called while a loop was active and was ignored
C2_Witness ==
  /\ log.op = "start_ignored"
  /\ Cardinality(LiveTasks("a1")) = 1

\* C3: when two stop() calls of outside tasks overlapped on a running agent
\* and all have returned, the loop was terminated exactly once and
\* save_checkpoint() was invoked exactly once since the agent was started.
C3_OneTerminationOneCheckpoint ==
  \A a \in Agents :
    ( /\ overlapped[a]
      /\ \A c \in Callers \cup LoopTasks : awaiting[a][c] = 0
      /\ \A t \in TaskIds : ~selfStopped[a][t] )
    => terminations[a] = 1 /\ checkpoints[a] = 1

\* C4: stop() called by the agent's own loop task never waits on that task,
\* leaves the state STOPPED, and the loop starts no further cycle: its next
\* loop-condition check ends it. stop() called by any other task while the
\* loop is unfinished requests its cancellation and goes on to
\* set_state(STOPPED) only when that loop task is done.
C4_StopByContext ==
  \A a \in Agents :
    /\ \A t \in TaskIds : awaiting[a][LoopTask(t)] # t
    /\ (log.agent = a /\ log.op = "stop" /\ log.caller \in LoopTasks)
         => state[a] = "STOPPED" /\ pc[a][log.caller[2]] \in InCycle
    /\ (log.agent = a /\ log.op \in {"cycle_start", "loop_paused", "loop_exit"}
          /\ selfStopped[a][log.caller[2]])
         => pc[a][log.caller[2]] = "done"
    /\ (log.agent = a /\ log.op = "stop" /\ log.caller \in Callers) => ~log.live
    /\ \A c \in Callers, t \in TaskIds :
         (awaiting[a][c] = t /\ pc[a][t] # "done") => must_cancel[a][t]

\* C4 witness: the loop task stopped its own agent inside a cycle, finished
\* the cycle and ended at the loop-condition check that followed
C4_Witness ==
  /\ log.op = "loop_exit"
  /\ log.caller \in LoopTasks
  /\ selfStopped["a1"][log.caller[2]]
  /\ state["a1"] = "STOPPED"

\* C5: once the loop has ended on an exception of perceive/decide/act, the
\* state is ERROR and stays ERROR until the next control call.
C5_ErrorStays == \A a \in Agents : crashed[a] => state[a] = "ERROR"

\* the step before this state ended in `except Exception` of _run_loop
EndedInException == log.sets # <<>> /\ log.sets[1][3] = "exception"

\* C6: when a handler owned by one agent raises during a publish() made in
\* another agent's act(), the publishing agent's loop does not end and its
\* state does not change.
C6_HandlerFailureIsolated ==
  (log.op = "publish" /\ raised /\ Owner(Last(delivered)) # log.agent)
    => /\ ~EndedInException
       /\ pc[log.agent][log.caller[2]] # "done"
       /\ log.sets = <<>>

\* the callbacks of the subscribe() calls made with topic tp, in call order
RECURSIVE ByTopic(_, _)
ByTopic(regs, tps) ==
  IF regs = <<>> THEN <<>>
  ELSE IF regs[1][1] \in tps THEN <<regs[1][2]>> \o ByTopic(Tail(regs), tps)
  ELSE ByTopic(Tail(regs), tps)

\* C7 as stated: a publish() that returned has invoked the callbacks
\* registered for the message type or for "*", once per registration, in the
\* order of the subscribe() calls.
C7_RegistrationOrder ==
  (published # <<>> /\ ~raised)
    => delivered = ByTopic(registered, {published, Wildcard})

\* C7 amended: a publish() that returned has invoked the callbacks registered
\* for the message type, in the order of their subscribe() calls, and after
\* them the callbacks registered for "*", in the order of theirs: once per
\* registration in each of the two lists, and nothing else.
C7_TypeThenWildcard ==
  (published # <<>> /\ ~raised)
    => delivered = ByTopic(registered, {published}) \o ByTopic(registered, {Wildcard})

\* C7 witness: a publish() returned after invoking a callback of the type
\* and a "*" callback that was registered before it
C7_Witness ==
  /\ published = MapV1
  /\ ~raised
  /\ Len(registered) >= 2
  /\ registered[1][1] = Wildcard
  /\ registered[2][1] = MapV1
  /\ Len(delivered) = 2

\* C8: every callback subscribed to the type of the last published message
\* or to "*" was invoked with it, also when one of them raised.
C8_AllInvokedDespiteFailure ==
  published # <<>>
    => \A cb \in Range(Recipients(subscribers, published)) : cb \in Range(delivered)

\* C9: a callback is invoked only for a message whose type is exactly a topic
\* it was subscribed with, or if it was subscribed with "*" (so a callback
\* subscribed only with "command.*.v1" is not invoked for
\* "command.builder.pause.v1"); and a publish() that returned has invoked
\* every callback subscribed with "*", whatever the message type.
C9_TopicsAreLiteral ==
  published # <<>>
    => /\ \A cb \in Range(delivered) :
            \E i \in 1..Len(registered) :
              registered[i][2] = cb /\ registered[i][1] \in {published, Wildcard}
       /\ ~raised => \A cb \in Range(subscribers[Wildcard]) : cb \in Range(delivered)

\* C9 witness: "command.builder.pause.v1" was published and delivered to a
\* "*" callback while another callback, subscribed with "command.*.v1" only,
\* was not invoked
C9_Witness ==
  /\ published = CommandPause
  /\ ~raised
  /\ delivered # <<>>
  /\ \E cb \in Range(subscribers[CommandPattern]) : cb \notin Range(delivered)

\* C10: no sector is held by two agents at once, an agent holding a sector
\* from the return of its successful acquire() until its own release of it.
C10_OneHolderPerSector ==
  \A s \in Sectors : Cardinality({a \in Agents : s \in holds[a]}) <= 1

\* C11: acquire(sector, timeout=T) on a sector that is held and stays held
\* returns False: acquire() never returns True for a sector that is locked;
\* a caller that leaves the wait while the sector is locked gets False and
\* the lock and its holders are as before; and no caller waits forever.
C11_TimeoutReturnsFalse ==
  /\ [][\A a \in Agents, s \in Sectors :
          /\ (s \in holds'[a] /\ s \notin holds[a]) => locks[s] # "locked"
          /\ (Waits(a, s) /\ ~(Waits(a, s))' /\ locks[s] = "locked")
               => /\ lastCall' = [op |-> "acquire", agent |-> a, sector |-> s,
                                  result |-> FALSE]
                  /\ locks' = locks
                  /\ holds' = holds]_vars
  /\ \A a \in Agents, s \in Sectors : Waits(a, s) ~> ~Waits(a, s)

\* C11 witness: a2's acquire of a sector a1 holds has returned False and a1
\* still holds the locked sector
C11_Witness ==
  /\ lastCall.op = "acquire"
  /\ lastCall.agent = "a2"
  /\ ~lastCall.result
  /\ ~Waits("a2", lastCall.sector)
  /\ locks[lastCall.sector] = "locked"
  /\ lastCall.sector \in holds["a1"]

\* C12: release(sector) on a sector that is not locked changes no lock and
\* wakes no waiter, and after any release(sector) the sector is not locked,
\* so that a second release of it is such a no-op.
C12_ReleaseUnheldIsNoOp ==
  [][\A a \in Agents, s \in Sectors :
       Release(a, s) => /\ locks'[s] # "locked"
                        /\ locks[s] # "locked" => locks' = locks /\ waiters' = waiters]_vars

\* C12 witness: a release() of a sector that was not locked has returned
\* while the other sector is locked
C12_Witness ==
  /\ lastCall.op = "release"
  /\ ~lastCall.result
  /\ locks[lastCall.sector] # "locked"
  /\ \E s \in Sectors : locks[s] = "locked"

\* C13: when release_all() has just returned, no sector of the manager is
\* locked, whatever calls came before.
C13_ReleaseAllLeavesNothingHeld ==
  lastCall.op = "release_all" => \A s \in Sectors : locks[s] # "locked"

\* C13 witness: release_all() has returned after releasing a locked sector
\* that another agent had acquired
C13_Witness ==
  /\ lastCall.op = "release_all"
  /\ lastCall.result
  /\ \E a \in Agents : a # lastCall.agent /\ holds[a] # {}

\* C14: two MinerBot agents are never both inside the locked part of a
\* mining step (from the successful acquire to the release) on one sector.
C14_SameSectorExcluded ==
  \A s \in Sectors : ~(mining["a1"] = s /\ mining["a2"] = s)

\* the elevation map {(0,0):5, (1,0):5, (0,1):5, (1,1):5, (2,0):3}
SampleMap ==
  [c \in {<<0, 0>>, <<1, 0>>, <<0, 1>>, <<1, 1>>, <<2, 0>>} |->
     IF c = <<2, 0>> THEN 3 ELSE 5]

\* C15: decide() on that map returns the rectangle (0,0)-(1,1): width 2,
\* height 2, area 4, elevation 5.
C15_SampleRectangle ==
  (decided /\ height_map = SampleMap)
    => best_rectangle = [found |-> TRUE, x1 |-> 0, z1 |-> 0, x2 |-> 1, z2 |-> 1,
                         width |-> 2, height |-> 2, area |-> 4, y |-> 5]

\* C15 witness: decide() has run on that map, scanned with the cell of
\* elevation 3 first
C15_Witness ==
  /\ decided
  /\ height_map = SampleMap
  /\ level_order = <<3, 5>>

\* every cell of the rectangle (x1,z1)-(x2,z2) is in the map with elevation h
UniformAt(hm, x1, z1, x2, z2, h) ==
  \A x \in x1..x2, z \in z1..z2 : <<x, z>> \in DOMAIN hm /\ hm[<<x, z>>] = h

\* C16: for every non-empty map, decide() returns a rectangle all of whose
\* cells are in the map with the returned elevation, and no rectangle of
\* uniform elevation in the map has a larger area.
C16_LargestUniformRectangle ==
  (decided /\ DOMAIN height_map # {})
    => /\ best_rectangle.found
       /\ UniformAt(height_map, best_rectangle.x1, best_rectangle.z1,
                    best_rectangle.x2, best_rectangle.z2, best_rectangle.y)
       /\ \A c \in Cells, d \in Cells, h \in Elevations :
            UniformAt(height_map, c[1], c[2], d[1], d[2], h)
              => (d[1] - c[1] + 1) * (d[2] - c[2] + 1) <= best_rectangle.area

\* two cells whose coordinates differ by 1 on one axis
Adjacent(c, d) ==
  \/ c[1] = d[1] /\ Abs(c[2] - d[2]) = 1
  \/ c[2] = d[2] /\ Abs(c[1] - d[1]) = 1

\* C17: on a map in which no two adjacent cells have the same elevation,
\* decide() returns no rectangle or a rectangle of area 1.
C17_NoFlatNeighboursAreaOne ==
  ( /\ decided
    /\ \A c \in DOMAIN height_map, d \in DOMAIN height_map :
         Adjacent(c, d) => height_map[c] # height_map[d] )
    => ~best_rectangle.found \/ best_rectangle.area = 1

\* C18: a decide() that saw an accepted map and a BOM the inventory does not
\* cover returned "wait_for_materials".
C18_WaitsForMaterials ==
  ( /\ decision # "none"
    /\ percept.map # NoMap
    /\ percept.bom # 0
    /\ ~MaterialsReady(percept.bom, percept.inventory) )
    => decision = "wait_for_materials"

\* C19: a decide() that saw an accepted map, a BOM and an inventory that
\* covers it returned "build_layer" if fewer layers were built than the plan
\* has, and "finish_building" otherwise.
C19_BuildsOrFinishes ==
  ( /\ percept.map # NoMap
    /\ percept.bom # 0
    /\ MaterialsReady(percept.bom, percept.inventory) )
    => decision = IF percept.build_progress < Layers
                  THEN "build_layer" ELSE "finish_building"

\* C19 witness: with the inventory covering the BOM and every layer built,
\* decide() returned "finish_building"
C19_Witness ==
  /\ decision = "finish_building"
  /\ percept.map # NoMap
  /\ percept.bom = Need
  /\ percept.inventory >= Need
  /\ percept.build_progress = Layers

\* C20 (its last sentence): no layer is built before the builder has
\* received an inventory that covers the BOM.
C20_NoLayerBeforeInventory ==
  build_progress > 0 => bom # 0 /\ MaterialsReady(bom, material_inventory)

\* C21: the build progress is never negative; while there is a build plan
\* it is at most the number of layers of that plan and never decreases; with
\* no plan (before it is made, after the reset) it is 0.
C21_ProgressMonotonicBounded ==
  /\ [](/\ build_progress >= 0
        /\ build_plan = 0 => build_progress = 0
        /\ build_plan # 0 => build_progress <= build_plan)
  /\ [][(build_plan # 0 /\ build_plan' # 0) => build_progress' >= build_progress]_vars

\* C21 witness: every layer of the plan is built, and the template selected
\* now has fewer layers than the plan
C21_Witness ==
  /\ build_plan # 0
  /\ build_progress = build_plan
  /\ LayersOf(template_name) < build_plan

\* C22: an agent for which start() was never called (no loop was ever
\* created) is in state Idle.
C22_IdleUntilStarted ==
  \A a \in Agents : task[a] = 0 => state[a] = "IDLE"

\* the last step was the end of a loop that found a terminal state (line 120)
\* with no stop() pending
EndedOnTerminalState ==
  /\ log.op = "loop_exit"
  /\ ~should_stop[log.agent]

\* C23: the step in which a loop ends by an unhandled exception or by a
\* terminal condition calls save_checkpoint() exactly once.
C23_OneCheckpointPerTermination ==
  (EndedInException \/ EndedOnTerminalState) => log.ckpts = 1

C25_CancellationIsQuiet ==
  (log.op = "loop_cancelled" /\ ~should_stop[log.agent])
    => /\ pc[log.agent][log.caller[2]] = "done"
       /\ state[log.agent] # "ERROR"
       /\ \A i \in 1..Len(log.sets) :
            log.sets[i][2] # "ERROR" /\ log.sets[i][3] # "stop command"

\* C25 witness: a loop in the middle of a cycle ended by a cancellation with
\* no stop() called
C25_Witness ==
  /\ log.op = "loop_cancelled"
  /\ ~should_stop[log.agent]
  /\ log.sets # <<>>
  /\ state[log.agent] = "STOPPED"

\* the state in which the last call of start() found the agent
StartedFrom == IF log.sets # <<>> THEN log.sets[1][1] ELSE state[log.agent]

\* C26: after a start() called in state Idle, Stopped or Error the stop flag
\* is clear, the state is Running and the agent has an active loop.
C26_StartReArms ==
  (log.op \in {"start", "start_ignored"} /\ StartedFrom \in {"IDLE", "STOPPED", "ERROR"})
    => /\ ~should_stop[log.agent]
       /\ state[log.agent] = "RUNNING"
       /\ TaskActive(log.agent)

\* C27: the cycle in which the builder finishes (build.v1 COMPLETED is
\* published) ends the loop with the state going to Stopped and never through
\* Error.
C27_CompletionIsNotAnError ==
  (log.op = "finish_building" /\ build_status = "COMPLETED")
    => /\ state[log.agent] = "STOPPED"
       /\ \A i \in 1..Len(log.sets) : log.sets[i][2] # "ERROR"

\* C28: a message command.<kind>.<verb>.v1, kind being the class of the bot
\* and verb one of pause, resume, stop, published with the bot's id as its
\* target, makes the bot execute that control method.
C28_CommandExecuted ==
  (command.agent # "none" /\ command.target = command.agent)
    => command.calls = <<command.verb>>

\* the coordinates at Chebyshev distance at most radius from the start point
ChebyshevBall(start_x, start_z, radius) ==
  {<<x, z>> : x \in (start_x - radius)..(start_x + radius),
              z \in (start_z - radius)..(start_z + radius)}

\* C29: the list search_spiral returns has no coordinate twice and holds
\* exactly the coordinates at Chebyshev distance at most radius from the
\* start point.
C29_SpiralIsChebyshevBall ==
  spiral_coords # <<>>
    => /\ Cardinality(Range(spiral_coords)) = Len(spiral_coords)
       /\ Range(spiral_coords)
            = ChebyshevBall(spiral_args[1], spiral_args[2], spiral_args[3])

\* the map.v1 message is out of contract for the builder
OutOfContract(msg) ==
  \/ msg.target \notin {Builder, "*"}
  \/ msg.rect = NoMap
  \/ msg.rect.width < WidthOf(template_name)
  \/ msg.rect.height < TplDepth

\* C30: the delivery of a map.v1 message whose target is neither the builder
\* nor "*", whose rectangle is none, or whose rectangle is narrower or
\* shallower than the selected template, changes none of the stored map, the
\* agent state, the BOM, the build plan and the build progress.
C30_OutOfContractMapDropped ==
  [][(log'.op \in {"on_map", "on_map_ignored"} /\ OutOfContract(map_msg'))
       => UNCHANGED <<last_map, state, bom, build_plan, build_progress>>]_vars

\* C30 witness: a rectangle too small for the selected template was dropped
\* while the builder, with a map stored, was building
C30_Witness ==
  /\ log.op = "on_map_ignored"
  /\ map_msg.target = Builder
  /\ map_msg.rect # NoMap
  /\ OutOfContract(map_msg)
  /\ last_map # NoMap
  /\ build_plan # 0
  /\ state[Builder] = "RUNNING"

\* C31: a build.v1 with status COMPLETED is published only when every layer
\* of the plan is built, and its payload carries that number of layers as the
\* progress.
C31_CompletedOnlyWhenAllBuilt ==
  build_status = "COMPLETED"
    => /\ build_v1.layers # 0
       /\ build_v1.progress = build_v1.layers

\* C31 witness: COMPLETED was published by the cycle that has just ended, for
\* a plan of as many layers as the first template has
C31_Witness ==
  /\ log.op = "finish_building"
  /\ build_status = "COMPLETED"
  /\ build_v1.progress = Layers

\* C32: the miner gives its final report (action report_complete) and clears
\* its BOM only in a cycle that perceived a BOM of which every material is in
\* the inventory in at least the quantity asked; and a cycle that perceived a
\* BOM of which some material is short decides "mine"
Short(cycle) ==
  \E mat \in Materials : cycle.inventory[mat] < cycle.bom.need[mat]

C33_TimeoutSkipsStep ==
  [][log'.op = "mine_skip" /\ pc[Miner][log'.caller[2]] = "perceive"
       => /\ miner_inventory' = miner_inventory
          /\ miner_bom' = miner_bom
          /\ state'[Miner] = state[Miner]
          /\ state'[Miner] \notin {"ERROR", "STOPPED"}
          /\ log'.sets = <<>> /\ log'.ckpts = 0
          /\ pc'[Miner][log'.caller[2]] = "yield"
          /\ TaskActive(Miner)'
          /\ MinerDecision(MinerPerceptBom(miner_bom'), miner_inventory') = "mine"]_vars

\* a step was skipped because the sector was locked: the loop task waits for
\* its next cycle
C33_Witness ==
  /\ log.op = "mine_skip"
  /\ \E s \in GridSectors : mlocks[Miner][s] = "locked"
  /\ mining[Miner] = NoSector
  /\ TaskActive(Miner) /\ pc[Miner][task[Miner]] = "yield"
  /\ state[Miner] = "RUNNING"

\* C34: no sector lock outlives its holder: when the miner has had a loop and
\* that loop has ended, none of the locks of the miner is held
C34_NoLockOutlivesLoop ==
  task[Miner] # 0 /\ ~TaskActive(Miner)
    => \A s \in GridSectors : mlocks[Miner][s] # "locked"

\* C35: an agent whose state is RUNNING has a loop task that has not finished
C35_RunningHasActiveLoop ==
  \A a \in Agents : state[a] = "RUNNING" => TaskActive(a)

\* C36: a builder that is PAUSED or STOPPED goes to RUNNING or WAITING only by
\* resume() or start(), not by a message it gets nor by its own decide()
C36_LeftOnlyByResumeOrStart ==
  [][state[Builder] \in {"PAUSED", "STOPPED"} /\ state'[Builder] \in {"RUNNING", "WAITING"}
       => log'.op \in {"resume", "start"}]_vars

\* C37: the layers of one build are all placed from the same base: the
\* base_x of every layer begun in the current build is that of its first layer
C37_LayersShareBase ==
  \A i \in DOMAIN layer_bases : layer_bases[i] = layer_bases[1]

\* C38: a handler ignores a message whose target is neither the agent's id
\* nor "*": the miner accepts a BOM only from a message addressed to it or to
\* everybody
C38_ForeignTargetIgnored ==
  log.op = "bom_accepted" => bom_target \in {Miner, "*"}

\* C40: once the miner has accepted a BOM it comes to have a loop that works
\* on it: when the handler returns, a loop task of the miner is active and
\* not cancelled, or a start() task is waiting to run
C40_AcceptedBomHasLoop ==
  log.op = "bom_accepted"
    => \/ TaskActive(Miner) /\ ~must_cancel[Miner][task[Miner]]
       \/ pending_start > 0

\* C39: a start command that the explorer gets in state RUNNING changes
\* neither center and range nor the scan in progress nor the loop, and is the
\* queued request afterwards, whatever was queued before; center and range
\* change only when a cycle has published its map.v1 or by a start command
\* got in another state; the cycle that publishes with a request queued makes
\* that request center and range, empties the queue and goes on to its next
\* cycle, which scans from them; and a cycle has published one map.v1 when it
\* ends
StartCmdOps == {"start_queued", "start", "start_ignored"}

====
